---- MODULE Spec2Model ----
(***************************************************************************)
(* The Non-Secure side of the secure-service call multiplexer of the       *)
(* Skywire Nano SDK (secure_services/zephyr/call.c): the channel bitmap,   *)
(* the per-channel semaphores, the EGU completion interrupt, the           *)
(* synchronous dispatcher CallSecureService with the internal URC          *)
(* subscription, the asynchronous pump MonitorAsync, arch_set_pendsv and   *)
(* the older Call helper, run by application threads and interrupt-context *)
(* callers on one core.  Secure firmware is the environment: it answers    *)
(* the Non-Secure-Callable entry points and raises the EGU events.         *)
(***************************************************************************)
EXTENDS Integers, Sequences, FiniteSets, TLC

\* ------------------------------------------------------------------ bounds

\* Application threads that call the dispatcher.
NumThreads == 2

\* Application threads that call the dispatcher in the loaded system.
NumLoadThreads == 4

\* How often a wait on a semaphore may end in failure.
MaxWaitFailures == 1

\* Interrupt handlers that call the dispatcher.
NumIsrs == 1

\* How many asynchronous messages Secure firmware queues.
MaxAsync == 2

\* How many SubscribeUrcs calls are followed to a result of 0.
MaxSubscribed == 2

\* ------------------------------------------------------- program constants

SECURE_SERVICE_CHANNEL_COUNT == 4

SECURE_SERVICE_ASYNC_CHANNEL == SECURE_SERVICE_CHANNEL_COUNT

SecureService_Kernel == 0

SecureService_At == 1

Kernel_Api_PendSv == 0

Kernel_Api_PeripheralAccess == 1

At_Api_RunCommand == 0

At_Api_SubscribeUrcs == 1

\* enum Async_Event
Async_Event_AtUrc == 0

\* sizeof(struct At_SubscribeUrcsParameters): one function pointer.
SizeofSubscribeUrcsParameters == 4

EAGAIN == 11

ENOMEM == 12

ETIMEDOUT == 116

\* The limit every semaphore is initialised with.
SemLimit == 1

\* ------------------------------------------------------------ bit arithmetic

RECURSIVE BitAnd(_, _)
BitAnd(a, b) ==
    IF a = 0 \/ b = 0 THEN 0
    ELSE ((a % 2) * (b % 2)) + 2 * BitAnd(a \div 2, b \div 2)

RECURSIVE BitOr(_, _)
BitOr(a, b) ==
    IF a = 0 THEN b
    ELSE IF b = 0 THEN a
    ELSE (IF (a % 2) + (b % 2) > 0 THEN 1 ELSE 0) + 2 * BitOr(a \div 2, b \div 2)

\* ~x truncated to the uint16_t it is stored back into
Not16(x) == (2 ^ 16) - 1 - (x % (2 ^ 16))

\* ---------------------------------------------------------- request encoding

\* A uint32_t request word is the pair of its 16-bit halves: hi holds bits
\* 31..16, lo holds bits 15..0.
Word32(x) == [hi |-> (x \div (2 ^ 16)) % (2 ^ 16), lo |-> x % (2 ^ 16)]

\* (x << n) for n >= 16, of which only the bits 31..16 can be set
ShlHi(x, n) == (x * (2 ^ (n - 16))) % (2 ^ 16)

CREATE_REQUEST_ChannelShift16(channel, service, api) ==
    [hi |-> BitOr(BitOr(BitAnd(ShlHi(channel, 16), 255),
                        BitAnd(ShlHi(service, 16), 255)),
                  Word32(api).hi),
     lo |-> Word32(api).lo]

\* (((uint32_t)channel << 24) & 0xFF000000) | (((uint32_t)service << 16) &
\* 0x00FF0000) | (uint32_t)api
CREATE_REQUEST(channel, service, api) ==
    [hi |-> BitOr(BitOr(BitAnd(ShlHi(channel, 24), 65280),
                        BitAnd(ShlHi(service, 16), 255)),
                  Word32(api).hi),
     lo |-> Word32(api).lo]

\* (uint8_t)((request >> 24) & 0x000000FF)
GET_CHANNEL(request) == BitAnd(request.hi \div (2 ^ 8), 255) % (2 ^ 8)

\* (uint8_t)((request >> 16) & 0x000000FF)
GET_SERVICE(request) == BitAnd(request.hi, 255) % (2 ^ 8)

\* (uint16_t)(request & 0x0000FFFF)
GET_API(request) == BitAnd(request.lo, 65535) % (2 ^ 16)

NoRequest == Word32(0)

\* ------------------------------------------------------------------ contexts

Threads == 1 .. NumLoadThreads

Isrs == (NumLoadThreads + 1) .. (NumLoadThreads + NumIsrs)

Callers == Threads \cup Isrs

\* secure_service_thread, which runs MonitorAsync
Pump == 0

\* The contexts the kernel schedules.
ThreadContexts == Threads \cup {Pump}

\* The callers of the system with few threads.
FewCallers == (1 .. NumThreads) \cup Isrs

Channels == 0 .. (SECURE_SERVICE_CHANNEL_COUNT - 1)

AllChannels == 0 .. SECURE_SERVICE_ASYNC_CHANNEL

\* The bitmaps with no bit at or above position N.
Bitmaps == 0 .. ((2 ^ SECURE_SERVICE_CHANNEL_COUNT) - 1)

\* The content of a channel variable that holds no reservation.
NoChannel == (2 ^ 8) - 1

\* The callbacks a caller may pass; 0 is NULL.
Callbacks == 0 .. 2

NullParameters == [null |-> TRUE, callback |-> 0]

\* The request a caller issues to Secure firmware: callers differ in the
\* service they use.
ServiceInput(t) ==
    IF t % 2 = 1
    THEN [service |-> SecureService_Kernel, api |-> Kernel_Api_PeripheralAccess,
          parameters |-> [null |-> FALSE, callback |-> 0], size |-> 4]
    ELSE [service |-> SecureService_At, api |-> At_Api_RunCommand,
          parameters |-> [null |-> FALSE, callback |-> 0], size |-> 8]

\* The URC subscriptions a caller may ask for.
SubscribeInputs ==
    { [service |-> SecureService_At, api |-> At_Api_SubscribeUrcs,
       parameters |-> [null |-> FALSE, callback |-> cb],
       size |-> SizeofSubscribeUrcsParameters] : cb \in Callbacks }
    \cup
    { [service |-> SecureService_At, api |-> At_Api_SubscribeUrcs,
       parameters |-> NullParameters, size |-> SizeofSubscribeUrcsParameters],
      [service |-> SecureService_At, api |-> At_Api_SubscribeUrcs,
       parameters |-> [null |-> FALSE, callback |-> 1], size |-> 0],
      [service |-> SecureService_At, api |-> At_Api_SubscribeUrcs,
       parameters |-> [null |-> FALSE, callback |-> 2],
       size |-> 2 * SizeofSubscribeUrcsParameters] }

\* What a caller passes to CallSecureService: the first threads are the ones
\* that subscribe to URCs.
Inputs(t) ==
    {ServiceInput(t)} \cup (IF t \in 1 .. NumThreads THEN SubscribeInputs ELSE {})

\* What a caller of the loaded system passes: the interrupt handler is the one
\* that subscribes.
LoadInputs(t) ==
    {ServiceInput(t)}
    \cup (IF t \in Isrs
          THEN {[service |-> SecureService_At, api |-> At_Api_SubscribeUrcs,
                 parameters |-> [null |-> FALSE, callback |-> 1],
                 size |-> SizeofSubscribeUrcsParameters]}
          ELSE {})

NoInput == [service |-> 0, api |-> 0, parameters |-> NullParameters, size |-> 0]

\* What the enqueue entry point answers (call.h): queued, serviced at once,
\* not yet available, failed to queue.
PutResults == {0, 1, -EAGAIN, -ETIMEDOUT}

\* What the fetch entry point answers when a response is there: the result of
\* the request's handling.
GetResults == {0, 5, -EAGAIN}

\* What the fetch entry point answers when there is no response to fetch.
GetFailures == {-ETIMEDOUT}

VARIABLES
    channels,      \* the channel bitfield (uint16_t)
    semaphores,    \* count of each of the N + 1 semaphores
    urcCallback,   \* the registered AT URC callback, 0 for NULL
    events,        \* EGU2 EVENTS_TRIGGERED[i]
    slot,          \* Secure firmware: the exchange of each bidirectional channel
    call,          \* each caller's invocation of CallSecureService: its place
                   \* (pc), arguments, locals and what it has done so far
    schedLock,     \* scheduler-lock nesting of each thread
    isrStack,      \* the interrupt-context callers that are running, innermost first
    waitFailures,  \* how many waits have ended in failure
    semFor,        \* the callers whose request a held signal was raised for
    evFor,         \* the callers whose request a pending event was raised for
    pump,          \* MonitorAsync: its place, locals and the callbacks it invoked
    asyncQueue,    \* Secure firmware: the asynchronous messages not yet fetched
    asyncSent,     \* how many asynchronous messages Secure firmware has queued
    pendsv,        \* arch_set_pendsv: who is inside it, with interrupts locked
    subscribed,    \* how many SubscribeUrcs calls have returned 0
    codec,         \* a request word being built and taken apart again
    fota,          \* the fota_download library: its statics, the call of
                   \* fota_download_start in progress and what it has done
    egu,           \* the events and semaphores the observed run of the EGU
                   \* interrupt handler found
    alloc          \* a call of ReserveChannel or FreeChannel on its own: its
                   \* argument, the bitmap it found and what it returned

vars == <<channels, semaphores, urcCallback, events, slot, call, schedLock,
          isrStack, waitFailures, semFor, evFor, pump, asyncQueue, asyncSent,
          pendsv, subscribed, codec, fota, egu, alloc>>

\* What the actions of the dispatcher and of the EGU interrupt leave alone.
asyncVars == <<pump, asyncQueue, asyncSent>>

NoExchange == [st |-> "none", request |-> NoRequest, owner |-> {}]

NoResult == 0

\* No request word is being built.
NoCodec ==
    [pc |-> "none", channel |-> 0, service |-> 0, api |-> 0,
     request |-> NoRequest, decoded |-> <<>>]

NoMessage == [event |-> 0, buffer |-> 0]

\* The fota_download library before fota_download_init: no client callback,
\* no download started, no call of fota_download_start made.
NoFota ==
    [callback |-> 0, handler |-> FALSE, fotaStarted |-> FALSE, pc |-> "idle",
     returned |-> FALSE, ret |-> 0, state |-> "unset", result |-> 0,
     commanded |-> FALSE,
     answer |-> <<>>, issued |-> 0, urcs |-> 0, events |-> <<>>,
     pending |-> FALSE, pendingAtCall |-> FALSE]


\* No call of the channel allocator on its own.
NoAlloc ==
    [pc |-> "none", arg |-> 0, channel |-> 0, before |-> 0, reserved |-> FALSE]

\* No run of the EGU interrupt handler has been observed.
NoEgu == [ran |-> FALSE, events |-> <<>>, semaphores |-> <<>>]

PumpStartWaits ==
    [pc |-> "wait",
     locked |-> FALSE,            \* the wrapper's local flag
     inNsc |-> FALSE,             \* inside a Non-Secure-Callable entry point
     request |-> NoRequest,       \* the word handed to __GetSecureServiceResponse
     parameters |-> NoMessage,    \* the static parameters
     result |-> NoResult,         \* what GetSecureServiceResponse returned
     fetched |-> <<>>,            \* the buffers of the messages fetched, in order
     dispatched |-> <<>>,         \* the buffers handed to the switch, in order
     queuedAtWake |-> 0,          \* the messages queued when the wait last returned
     sinceWake |-> 0,             \* the messages fetched since then
     delivered |-> <<>>]          \* the callback invocations, in order

\* MonitorAsync when its thread starts.
PumpStart ==
    [pc |-> "get",
     locked |-> FALSE,            \* the wrapper's local flag
     inNsc |-> FALSE,             \* inside a Non-Secure-Callable entry point
     request |-> NoRequest,       \* the word handed to __GetSecureServiceResponse
     parameters |-> NoMessage,    \* the static parameters
     result |-> NoResult,         \* what GetSecureServiceResponse returned
     fetched |-> <<>>,            \* the buffers of the messages fetched, in order
     dispatched |-> <<>>,         \* the buffers handed to the switch, in order
     queuedAtWake |-> 0,          \* the messages queued when the wait last returned
     sinceWake |-> 0,             \* the messages fetched since then
     delivered |-> <<>>]          \* the callback invocations, in order

\* Nobody is inside arch_set_pendsv.
NoPendsv == [by |-> {}, request |-> NoRequest]

\* A caller outside CallSecureService.
Idle ==
    [pc |-> "idle",
     arg |-> NoInput,             \* service, api, parameters, size
     channel |-> NoChannel,       \* the local channel
     result |-> NoResult,         \* the local result
     locked |-> FALSE,            \* the wrapper's local flag
     inNsc |-> FALSE,             \* inside a Non-Secure-Callable entry point
     putRequest |-> NoRequest,    \* the word handed to __PutSecureServiceRequest
     getRequest |-> NoRequest,    \* the word handed to __GetSecureServiceResponse
     putResult |-> NoResult,      \* what __PutSecureServiceRequest returned
     getResult |-> NoResult,      \* what __GetSecureServiceResponse returned
     fetched |-> NoExchange,      \* the exchange __GetSecureServiceResponse returned
     staleAtReserve |-> FALSE,    \* the semaphore held a signal at the reservation
     wokeFor |-> {},              \* whose request the consumed signal was raised for
     trace |-> <<>>]              \* the steps of this call, in order

\* --------------------------------------------------------- kernel primitives

k_is_in_isr(t) == t \in Isrs

k_sem_give_dropped(sems, c) == [sems EXCEPT ![c] = 0]

k_sem_give_nothing(sems, c) == sems

k_sem_give_unlimited(sems, c) == [sems EXCEPT ![c] = @ + 1]

\* k_sem_give: one more signal, up to the semaphore's limit
k_sem_give(sems, c) ==
    [sems EXCEPT ![c] = IF @ < SemLimit THEN @ + 1 ELSE @]

\* k_sem_take: one signal less (the caller has found one)
k_sem_take_all(sems, c) == [x \in DOMAIN sems |-> 0]

k_sem_take(sems, c) == [sems EXCEPT ![c] = @ - 1]

k_sem_take_no_wait_skipped(sems, c) == sems

\* k_sem_take(..., K_NO_WAIT): takes a signal if there is one
k_sem_take_no_wait(sems, c) ==
    IF sems[c] > 0 THEN k_sem_take(sems, c) ELSE sems

\* ---------------------------------------------------------- channel allocator

RECURSIVE ReserveScan(_, _, _)
ReserveScan(chs, chan, i) ==
    IF i >= SECURE_SERVICE_CHANNEL_COUNT
    THEN [reserved |-> FALSE, channel |-> chan, channels |-> chs]
    ELSE IF BitAnd(chs, 2 ^ i) = 0
         THEN [reserved |-> TRUE, channel |-> i, channels |-> BitOr(chs, 2 ^ i)]
         ELSE ReserveScan(chs, chan, i + 1)

ReserveChannelNoMark(chs, chan) ==
    [ReserveScan(chs, chan, 0) EXCEPT !.channels = chs]

RECURSIVE ReserveScanOneMore(_, _, _)
ReserveScanOneMore(chs, chan, i) ==
    IF i > SECURE_SERVICE_CHANNEL_COUNT
    THEN [reserved |-> FALSE, channel |-> chan, channels |-> chs]
    ELSE IF BitAnd(chs, 2 ^ i) = 0
         THEN [reserved |-> TRUE, channel |-> i, channels |-> BitOr(chs, 2 ^ i)]
         ELSE ReserveScanOneMore(chs, chan, i + 1)

ReserveChannelOneMore(chs, chan) == ReserveScanOneMore(chs, chan, 0)

ReserveChannelHighest(chs, chan) ==
    IF \E i \in 0 .. (SECURE_SERVICE_CHANNEL_COUNT - 1) : BitAnd(chs, 2 ^ i) = 0
    THEN LET top == CHOOSE i \in 0 .. (SECURE_SERVICE_CHANNEL_COUNT - 1) :
                        /\ BitAnd(chs, 2 ^ i) = 0
                        /\ \A j \in 0 .. (SECURE_SERVICE_CHANNEL_COUNT - 1) :
                               BitAnd(chs, 2 ^ j) = 0 => j <= i IN
         [reserved |-> TRUE, channel |-> top, channels |-> BitOr(chs, 2 ^ top)]
    ELSE [reserved |-> FALSE, channel |-> chan, channels |-> chs]

ReserveChannelFromTop(chs, chan) ==
    IF \E i \in 0 .. SECURE_SERVICE_CHANNEL_COUNT : BitAnd(chs, 2 ^ i) = 0
    THEN LET top == CHOOSE i \in 0 .. SECURE_SERVICE_CHANNEL_COUNT :
                        /\ BitAnd(chs, 2 ^ i) = 0
                        /\ \A j \in 0 .. SECURE_SERVICE_CHANNEL_COUNT :
                               BitAnd(chs, 2 ^ j) = 0 => j <= i IN
         [reserved |-> TRUE, channel |-> top, channels |-> BitOr(chs, 2 ^ top)]
    ELSE [reserved |-> FALSE, channel |-> chan, channels |-> chs]

\* [reserved, channel, channels]: chan is what *channel held before
ReserveChannel(chs, chan) == ReserveScan(chs, chan, 0)

FreeChannelWraps(chs, chan) ==
    BitAnd(chs, Not16(2 ^ (chan % SECURE_SERVICE_CHANNEL_COUNT)))

FreeChannel(chs, chan) ==
    IF chan < SECURE_SERVICE_CHANNEL_COUNT
    THEN BitAnd(chs, Not16(2 ^ chan))
    ELSE chs

\* ------------------------------------------------------------ internal service

HandleInternalServiceFallsThrough(in, cb) ==
    IF /\ in.service = SecureService_At /\ in.api = At_Api_SubscribeUrcs
       /\ cb = 0 /\ ~in.parameters.null /\ in.size = SizeofSubscribeUrcsParameters
    THEN [handled |-> TRUE, result |-> 0, urcCallback |-> in.parameters.callback]
    ELSE [handled |-> FALSE, result |-> NoResult, urcCallback |-> cb]

HandleInternalServiceOverwrites(in, cb) ==
    IF in.service = SecureService_At /\ in.api = At_Api_SubscribeUrcs
    THEN IF ~in.parameters.null /\ in.size = SizeofSubscribeUrcsParameters
         THEN [handled |-> TRUE, result |-> 0, urcCallback |-> in.parameters.callback]
         ELSE [handled |-> TRUE, result |-> -ENOMEM, urcCallback |-> cb]
    ELSE [handled |-> FALSE, result |-> NoResult, urcCallback |-> cb]

HandleInternalServiceAlwaysAccepts(in, cb) ==
    IF in.service = SecureService_At /\ in.api = At_Api_SubscribeUrcs
    THEN IF ~in.parameters.null /\ in.size = SizeofSubscribeUrcsParameters
         THEN [handled |-> TRUE, result |-> 0,
               urcCallback |-> IF cb = 0 THEN in.parameters.callback ELSE cb]
         ELSE [handled |-> TRUE, result |-> -ENOMEM, urcCallback |-> cb]
    ELSE [handled |-> FALSE, result |-> NoResult, urcCallback |-> cb]

HandleInternalServiceAnySize(in, cb) ==
    IF in.service = SecureService_At /\ in.api = At_Api_SubscribeUrcs
    THEN IF cb = 0 /\ ~in.parameters.null
         THEN [handled |-> TRUE, result |-> 0, urcCallback |-> in.parameters.callback]
         ELSE [handled |-> TRUE, result |-> -ENOMEM, urcCallback |-> cb]
    ELSE [handled |-> FALSE, result |-> NoResult, urcCallback |-> cb]

\* [handled, result, urcCallback]
HandleInternalService(in, cb) ==
    IF in.service = SecureService_At /\ in.api = At_Api_SubscribeUrcs
    THEN IF cb = 0 /\ ~in.parameters.null /\ in.size = SizeofSubscribeUrcsParameters
         THEN [handled |-> TRUE, result |-> 0, urcCallback |-> in.parameters.callback]
         ELSE [handled |-> TRUE, result |-> -ENOMEM, urcCallback |-> cb]
    ELSE [handled |-> FALSE, result |-> NoResult, urcCallback |-> cb]

\* ------------------------------------------------------------------ scheduling

\* A pending EGU event interrupts thread code before its next step; an
\* interrupt handler runs to its end before threads continue; a thread that
\* holds the scheduler lock is not switched out.
ThreadMayRun(t) ==
    /\ t \in ThreadContexts
    /\ isrStack = <<>>
    /\ pendsv.by = {}
    /\ \A c \in AllChannels : ~events[c]
    /\ \A u \in ThreadContexts \ {t} : schedLock[u] = 0

IsrMayRun(t) ==
    /\ t \in Isrs
    /\ isrStack # <<>>
    /\ Head(isrStack) = t

MayRun(t) == ThreadMayRun(t) \/ IsrMayRun(t)

\* ------------------------------------------------------------------ initial

Init ==
    /\ channels = 0
    /\ semaphores = [c \in AllChannels |-> 0]
    /\ urcCallback = 0
    /\ events = [c \in AllChannels |-> FALSE]
    /\ slot = [c \in Channels |-> NoExchange]
    /\ call = [t \in Callers |-> Idle]
    /\ schedLock = [t \in Callers \cup {Pump} |-> 0]
    /\ isrStack = <<>>
    /\ waitFailures = 0
    /\ semFor = [c \in AllChannels |-> {}]
    /\ evFor = [c \in AllChannels |-> {}]
    /\ pump = PumpStart
    /\ asyncQueue = <<>>
    /\ asyncSent = 0
    /\ pendsv = NoPendsv
    /\ subscribed = 0
    /\ fota = NoFota
    /\ egu = NoEgu
    /\ alloc = NoAlloc
    /\ codec = NoCodec

\* The ghost record of whose signal a semaphore holds follows its count.
SemForAfter(sems, c) == [semFor EXCEPT ![c] = IF sems[c] = 0 THEN {} ELSE @]

\* ------------------------------------------------------------ CallSecureService

\* Entry: the internal-service check, then the reservation.
Enter(t, in) ==
    LET h == HandleInternalService(in, urcCallback)
        r == ReserveChannel(channels, call[t].channel) IN
    IF h.handled
    THEN /\ h.result = 0 => subscribed < MaxSubscribed
         /\ subscribed' = IF h.result = 0 THEN subscribed + 1 ELSE subscribed
         /\ urcCallback' = h.urcCallback
         /\ call' = [call EXCEPT ![t] =
                [@ EXCEPT !.pc = "ret", !.arg = in, !.result = h.result,
                          !.trace = <<"internal">>]]
         /\ UNCHANGED channels
    ELSE /\ channels' = r.channels
         /\ call' = [call EXCEPT ![t] =
                IF r.reserved
                THEN [@ EXCEPT !.pc = "preclear", !.arg = in,
                               !.channel = r.channel,
                               !.staleAtReserve = semaphores[r.channel] > 0,
                               !.trace = <<"reserve">>]
                ELSE [@ EXCEPT !.pc = "ret", !.arg = in, !.channel = r.channel,
                               !.result = -ETIMEDOUT,
                               !.trace = <<"nochannel">>]]
         /\ UNCHANGED <<urcCallback, subscribed>>

ThreadCall(t, ins) ==
    /\ ThreadMayRun(t)
    /\ call[t].pc = "idle"
    /\ \E in \in ins : Enter(t, in)
    /\ UNCHANGED <<alloc, egu, fota, codec, asyncVars, pendsv, semaphores,
                   events, slot, schedLock, isrStack, waitFailures, semFor,
                   evFor>>

IsrCall(t, ins) ==
    /\ t \in Isrs
    /\ pendsv.by = {}
    /\ call[t].pc = "idle"
    /\ \E in \in ins : Enter(t, in)
    /\ isrStack' = <<t>> \o isrStack
    /\ UNCHANGED <<alloc, egu, fota, codec, asyncVars, pendsv, semaphores,
                   events, slot, schedLock, waitFailures, semFor, evFor>>

\* k_sem_take(&semaphores[channel], K_NO_WAIT)
PreClear(t) ==
    /\ MayRun(t)
    /\ call[t].pc = "preclear"
    /\ semaphores' = k_sem_take_no_wait(semaphores, call[t].channel)
    /\ semFor' = SemForAfter(semaphores', call[t].channel)
    /\ call' = [call EXCEPT ![t].pc = "put",
                            ![t].trace = Append(@, "preclear")]
    /\ UNCHANGED <<alloc, egu, fota, codec, subscribed, asyncVars, pendsv,
                   channels, urcCallback, events, slot, schedLock, isrStack,
                   waitFailures, evFor>>

\* --------------------------------------------- the scheduler-locking wrappers

WrapperNeverLocks(t) == FALSE

WrapperAlwaysLocks(t) == TRUE

\* if (!k_is_in_isr()) { locked = true; k_sched_lock(); } else { locked = false; }
WrapperLocks(t) == ~k_is_in_isr(t)

\* The scheduler lock after a wrapper has been entered, up to the call of the
\* Non-Secure-Callable entry point.
WrapperEnter(t) ==
    [schedLock EXCEPT ![t] = IF WrapperLocks(t) THEN @ + 1 ELSE @]

WrapperLeaveUnconditional(t, locked) == [schedLock EXCEPT ![t] = @ - 1]

\* The scheduler lock when the entry point has returned:
\* if (locked) { k_sched_unlock(); }
WrapperLeave(t, locked) ==
    [schedLock EXCEPT ![t] = IF locked THEN @ - 1 ELSE @]

\* ------------------------------------------------------------ Secure firmware

\* The enqueue entry point: a request accepted with 0 becomes the exchange of
\* the channel its request word names.
SecurePut(sl, request, r, t) ==
    IF r = 0 /\ GET_CHANNEL(request) \in Channels
    THEN [sl EXCEPT ![GET_CHANNEL(request)] =
              [st |-> "inflight", request |-> request, owner |-> {t}]]
    ELSE sl

\* The fetch entry point finds a response for a request word when the
\* exchange of the channel it names is complete.
SecureHasResponse(sl, request) ==
    /\ GET_CHANNEL(request) \in Channels
    /\ sl[GET_CHANNEL(request)].st = "ready"

SecureGet(sl, request) ==
    IF SecureHasResponse(sl, request)
    THEN [sl EXCEPT ![GET_CHANNEL(request)] = NoExchange]
    ELSE sl

\* Secure firmware finishes the exchange of channel c and triggers its event.
SecureComplete(c) ==
    /\ slot[c].st = "inflight"
    /\ slot' = [slot EXCEPT ![c].st = "ready"]
    /\ events' = [events EXCEPT ![c] = TRUE]
    /\ evFor' = [evFor EXCEPT ![c] = @ \cup slot[c].owner]
    /\ UNCHANGED <<alloc, egu, fota, codec, subscribed, asyncVars, pendsv,
                   channels, semaphores, urcCallback, call, schedLock,
                   isrStack, waitFailures, semFor>>

\* ------------------------------------------------- CallSecureService, continued

\* CREATE_REQUEST(channel, service, api), as handed to the enqueue
PutRequestWord(t) ==
    CREATE_REQUEST(call[t].channel, call[t].arg.service, call[t].arg.api)

GetRequestWordChannel0(t) ==
    CREATE_REQUEST(0, call[t].arg.service, call[t].arg.api)

\* CREATE_REQUEST(channel, service, api), as handed to the fetch
GetRequestWord(t) ==
    CREATE_REQUEST(call[t].channel, call[t].arg.service, call[t].arg.api)

\* PutSecureServiceRequest up to the call of __PutSecureServiceRequest
PutEnter(t) ==
    /\ MayRun(t)
    /\ call[t].pc = "put"
    /\ schedLock' = WrapperEnter(t)
    /\ call' = [call EXCEPT ![t] =
           [@ EXCEPT !.pc = "inPut", !.locked = WrapperLocks(t), !.inNsc = TRUE,
                     !.putRequest = PutRequestWord(t),
                     !.trace = Append(@, "put")]]
    /\ UNCHANGED <<alloc, egu, fota, codec, subscribed, asyncVars, pendsv,
                   channels, semaphores, urcCallback, events, slot, isrStack,
                   waitFailures, semFor, evFor>>

\* An interrupt handler only issues requests that are serviced at once or
\* refused: it cannot wait for a response.
PutAnswers(t) == IF k_is_in_isr(t) THEN PutResults \ {0} ELSE PutResults

AfterPutKeepsOne(r) ==
    IF r # 0 THEN [pc |-> "done", result |-> r]
    ELSE [pc |-> "wait", result |-> r]

AfterPutMasksError(r) ==
    IF r = 1 THEN [pc |-> "done", result |-> 0]
    ELSE IF r # 0 THEN [pc |-> "done", result |-> -ETIMEDOUT]
    ELSE [pc |-> "wait", result |-> r]

AfterPutReturnsEarly(r) ==
    IF r = 1 THEN [pc |-> "done", result |-> 0]
    ELSE IF r # 0 THEN [pc |-> "ret", result |-> r]
    ELSE [pc |-> "wait", result |-> r]

AfterPutSkipsWait(r) ==
    IF r = 1 THEN [pc |-> "done", result |-> 0]
    ELSE IF r # 0 THEN [pc |-> "done", result |-> r]
    ELSE [pc |-> "get", result |-> r]

\* What CallSecureService does with the result r of the enqueue: [pc, result]
AfterPut(r) ==
    IF r = 1 THEN [pc |-> "done", result |-> 0]
    ELSE IF r # 0 THEN [pc |-> "done", result |-> r]
    ELSE [pc |-> "wait", result |-> r]

\* __PutSecureServiceRequest returns, the wrapper unlocks, the result is examined
PutReturn(t) ==
    /\ MayRun(t)
    /\ call[t].pc = "inPut"
    /\ \E r \in PutAnswers(t) :
          /\ slot' = SecurePut(slot, call[t].putRequest, r, t)
          /\ call' = [call EXCEPT ![t] =
                 [@ EXCEPT !.pc = AfterPut(r).pc, !.result = AfterPut(r).result,
                           !.putResult = r, !.inNsc = FALSE]]
    /\ schedLock' = WrapperLeave(t, call[t].locked)
    /\ UNCHANGED <<alloc, egu, fota, codec, subscribed, asyncVars, pendsv,
                   channels, semaphores, urcCallback, events, isrStack,
                   waitFailures, semFor, evFor>>

\* k_sem_take(&semaphores[channel], K_FOREVER): a signal is there and is taken
WaitSignalled(t) ==
    /\ MayRun(t)
    /\ call[t].pc = "wait"
    /\ semaphores[call[t].channel] > 0
    /\ semaphores' = k_sem_take(semaphores, call[t].channel)
    /\ semFor' = SemForAfter(semaphores', call[t].channel)
    /\ call' = [call EXCEPT ![t] =
           [@ EXCEPT !.pc = "get", !.result = 0,
                     !.wokeFor = semFor[call[t].channel],
                     !.trace = Append(@, "wait")]]
    /\ UNCHANGED <<alloc, egu, fota, codec, subscribed, asyncVars, pendsv,
                   channels, urcCallback, events, slot, schedLock, isrStack,
                   waitFailures, evFor>>

\* k_sem_take(&semaphores[channel], K_FOREVER) returns a failure
WaitFailed(t) ==
    /\ MayRun(t)
    /\ call[t].pc = "wait"
    /\ semaphores[call[t].channel] = 0
    /\ waitFailures < MaxWaitFailures
    /\ waitFailures' = waitFailures + 1
    /\ call' = [call EXCEPT ![t] =
           [@ EXCEPT !.pc = "done", !.result = -ETIMEDOUT,
                     !.trace = Append(@, "waitfailed")]]
    /\ UNCHANGED <<alloc, egu, fota, codec, subscribed, asyncVars, pendsv,
                   channels, semaphores, urcCallback, events, slot, schedLock,
                   isrStack, semFor, evFor>>

\* GetSecureServiceResponse up to the call of __GetSecureServiceResponse
GetEnter(t) ==
    /\ MayRun(t)
    /\ call[t].pc = "get"
    /\ schedLock' = WrapperEnter(t)
    /\ call' = [call EXCEPT ![t] =
           [@ EXCEPT !.pc = "inGet", !.locked = WrapperLocks(t), !.inNsc = TRUE,
                     !.getRequest = GetRequestWord(t),
                     !.trace = Append(@, "get")]]
    /\ UNCHANGED <<alloc, egu, fota, codec, subscribed, asyncVars, pendsv,
                   channels, semaphores, urcCallback, events, slot, isrStack,
                   waitFailures, semFor, evFor>>

AfterGetDropsPositive(r) == IF r > 0 THEN 0 ELSE r

\* Get the response and use its result as our result
AfterGet(r) == r

\* __GetSecureServiceResponse returns, the wrapper unlocks
GetReturn(t) ==
    /\ MayRun(t)
    /\ call[t].pc = "inGet"
    /\ \E r \in (IF SecureHasResponse(slot, call[t].getRequest)
                 THEN GetResults ELSE GetFailures) :
          call' = [call EXCEPT ![t] =
              [@ EXCEPT !.pc = "done", !.result = AfterGet(r), !.getResult = r,
                        !.inNsc = FALSE,
                        !.fetched =
                            IF SecureHasResponse(slot, call[t].getRequest)
                            THEN slot[GET_CHANNEL(call[t].getRequest)]
                            ELSE NoExchange]]
    /\ slot' = SecureGet(slot, call[t].getRequest)
    /\ schedLock' = WrapperLeave(t, call[t].locked)
    /\ UNCHANGED <<alloc, egu, fota, codec, subscribed, asyncVars, pendsv,
                   channels, semaphores, urcCallback, events, isrStack,
                   waitFailures, semFor, evFor>>

\* The interrupt handlers that are running once t has returned.
IsrStackAfterReturn(t) == IF k_is_in_isr(t) THEN Tail(isrStack) ELSE isrStack

\* Done: FreeChannel(channel); return result
Done(t) ==
    /\ MayRun(t)
    /\ call[t].pc = "done"
    /\ channels' = FreeChannel(channels, call[t].channel)
    /\ slot' = [c \in Channels |->
                    IF c = call[t].channel THEN [slot[c] EXCEPT !.owner = @ \ {t}]
                    ELSE slot[c]]
    /\ semFor' = [semFor EXCEPT ![call[t].channel] = @ \ {t}]
    /\ evFor' = [evFor EXCEPT ![call[t].channel] = @ \ {t}]
    /\ call' = [call EXCEPT ![t] = Idle]
    /\ isrStack' = IsrStackAfterReturn(t)
    /\ UNCHANGED <<alloc, egu, fota, codec, subscribed, asyncVars, pendsv,
                   semaphores, urcCallback, events, schedLock, waitFailures>>

\* return result, on the paths that hold no channel
Return(t) ==
    /\ MayRun(t)
    /\ call[t].pc = "ret"
    /\ call' = [call EXCEPT ![t] = Idle]
    /\ isrStack' = IsrStackAfterReturn(t)
    /\ UNCHANGED <<alloc, egu, fota, codec, subscribed, asyncVars, pendsv,
                   channels, semaphores, urcCallback, events, slot, schedLock,
                   waitFailures, semFor, evFor>>

\* ------------------------------------------------------------ the EGU interrupt

HandleEguInterruptAlways(st, c) ==
    [events |-> [st.events EXCEPT ![c] = FALSE],
     semaphores |-> k_sem_give(st.semaphores, c)]

HandleEguInterruptNoGive(st, c) ==
    [events |-> [st.events EXCEPT ![c] = FALSE], semaphores |-> st.semaphores]

\* st is [events, semaphores]
HandleEguInterrupt(st, c) ==
    IF ~st.events[c]
    THEN st
    ELSE [events |-> [st.events EXCEPT ![c] = FALSE],
          semaphores |-> k_sem_give(st.semaphores, c)]

EguSweepFirstOnly(st, i) ==
    IF \E c \in Channels : c >= i /\ st.events[c]
    THEN HandleEguInterrupt(
             st, CHOOSE c \in Channels :
                     /\ c >= i /\ st.events[c]
                     /\ \A d \in Channels : (d >= i /\ st.events[d]) => c <= d)
    ELSE st

RECURSIVE EguSweep(_, _)
EguSweep(st, i) ==
    IF i >= SECURE_SERVICE_CHANNEL_COUNT THEN st
    ELSE EguSweep(HandleEguInterrupt(st, i), i + 1)

EguHandlerInvokes ==
    /\ \E c \in AllChannels : events[c]
    /\ pendsv.by = {}
    /\ LET st == HandleEguInterrupt(
                    EguSweep([events |-> events, semaphores |-> semaphores], 0),
                    SECURE_SERVICE_ASYNC_CHANNEL) IN
       /\ events' = st.events
       /\ semaphores' = st.semaphores
       /\ semFor' = [c \in AllChannels |->
                        IF st.semaphores[c] = 0 THEN {}
                        ELSE IF events[c] /\ ~st.events[c]
                             THEN IF semaphores[c] = 0 THEN evFor[c]
                                  ELSE semFor[c] \cup evFor[c]
                             ELSE semFor[c]]
       /\ evFor' = [c \in AllChannels |-> IF st.events[c] THEN evFor[c] ELSE {}]
    /\ pump' = [pump EXCEPT
           !.delivered = IF events[SECURE_SERVICE_ASYNC_CHANNEL] /\ urcCallback # 0
                         THEN Append(@, [callback |-> urcCallback, buffer |-> 0])
                         ELSE @]
    /\ UNCHANGED <<alloc, fota, codec, subscribed, asyncQueue, asyncSent, pendsv,
                   channels, urcCallback, slot, call, schedLock, isrStack,
                   waitFailures>>

\* EguInterrupt: every bidirectional channel, then the asynchronous one.
EguHandler ==
    /\ \E c \in AllChannels : events[c]
    /\ pendsv.by = {}
    /\ LET st == HandleEguInterrupt(
                    EguSweep([events |-> events, semaphores |-> semaphores], 0),
                    SECURE_SERVICE_ASYNC_CHANNEL) IN
       /\ events' = st.events
       /\ semaphores' = st.semaphores
       /\ semFor' = [c \in AllChannels |->
                        IF st.semaphores[c] = 0 THEN {}
                        ELSE IF events[c] /\ ~st.events[c]
                             THEN IF semaphores[c] = 0 THEN evFor[c]
                                  ELSE semFor[c] \cup evFor[c]
                             ELSE semFor[c]]
       /\ evFor' = [c \in AllChannels |-> IF st.events[c] THEN evFor[c] ELSE {}]
    /\ UNCHANGED <<alloc, fota, codec, subscribed, asyncVars, pendsv, channels,
                   urcCallback, slot, call, schedLock, isrStack, waitFailures>>

EguInterrupt == EguHandler /\ UNCHANGED egu

\* ---------------------------------------------------------------- MonitorAsync

\* CREATE_REQUEST(SECURE_SERVICE_ASYNC_CHANNEL, 0, 0)
AsyncRequestWord == CREATE_REQUEST(SECURE_SERVICE_ASYNC_CHANNEL, 0, 0)

\* Secure firmware queues an asynchronous message and triggers the event of
\* the asynchronous channel.
SecureAsync ==
    /\ asyncSent < MaxAsync
    /\ asyncSent' = asyncSent + 1
    /\ asyncQueue' = Append(asyncQueue,
                            [event |-> Async_Event_AtUrc, buffer |-> asyncSent + 1])
    /\ events' = [events EXCEPT ![SECURE_SERVICE_ASYNC_CHANNEL] = TRUE]
    /\ UNCHANGED <<alloc, egu, fota, codec, subscribed, channels, semaphores,
                   urcCallback, slot, call, schedLock, isrStack, waitFailures,
                   semFor, evFor, pump, pendsv>>

\* GetSecureServiceResponse up to the call of __GetSecureServiceResponse
PumpGetEnter ==
    /\ ThreadMayRun(Pump)
    /\ pump.pc = "get"
    /\ schedLock' = WrapperEnter(Pump)
    /\ pump' = [pump EXCEPT !.pc = "inGet", !.locked = WrapperLocks(Pump),
                            !.inNsc = TRUE, !.request = AsyncRequestWord]
    /\ UNCHANGED <<alloc, egu, fota, codec, subscribed, channels, semaphores,
                   urcCallback, events, slot, call, isrStack, waitFailures,
                   semFor, evFor, asyncQueue, asyncSent, pendsv>>

\* if (result != 0) { break; }
AfterPumpGet(r) == IF r # 0 THEN "wait" ELSE "dispatch"

\* __GetSecureServiceResponse returns: 0 with the oldest message, or a failure
\* when there is none, which ends the draining
PumpGetReturn ==
    /\ ThreadMayRun(Pump)
    /\ pump.pc = "inGet"
    /\ IF GET_CHANNEL(pump.request) = SECURE_SERVICE_ASYNC_CHANNEL
          /\ asyncQueue # <<>>
       THEN /\ pump' = [pump EXCEPT
                   !.pc = AfterPumpGet(0), !.inNsc = FALSE, !.result = 0,
                   !.parameters = Head(asyncQueue),
                   !.fetched = Append(@, Head(asyncQueue).buffer),
                   !.sinceWake = @ + 1]
            /\ asyncQueue' = Tail(asyncQueue)
       ELSE /\ \E r \in GetFailures :
                  pump' = [pump EXCEPT !.pc = AfterPumpGet(r), !.inNsc = FALSE,
                                       !.result = r]
            /\ UNCHANGED asyncQueue
    /\ schedLock' = WrapperLeave(Pump, pump.locked)
    /\ UNCHANGED <<alloc, egu, fota, codec, subscribed, channels, semaphores,
                   urcCallback, events, slot, call, isrStack, waitFailures,
                   semFor, evFor, asyncSent, pendsv>>

AfterDispatchWaits == "wait"

\* The inner while (true) goes round: the next fetch follows.
AfterDispatch == "get"

InvokeCallbackUnchecked(delivered, callback, parameters) ==
    Append(delivered, [callback |-> callback, buffer |-> parameters.buffer])

\* case Async_Event_AtUrc: if (callback != NULL) { callback(parameters.buffer); }
InvokeCallback(delivered, callback, parameters) ==
    IF parameters.event = Async_Event_AtUrc /\ callback # 0
    THEN Append(delivered, [callback |-> callback, buffer |-> parameters.buffer])
    ELSE delivered

\* switch (parameters.event): the callback is read once and invoked if not NULL
PumpDispatch ==
    /\ ThreadMayRun(Pump)
    /\ pump.pc = "dispatch"
    /\ pump' = [pump EXCEPT
           !.pc = AfterDispatch,
           !.dispatched = Append(@, pump.parameters.buffer),
           !.delivered = InvokeCallback(@, urcCallback, pump.parameters)]
    /\ UNCHANGED <<alloc, egu, fota, codec, subscribed, channels, semaphores,
                   urcCallback, events, slot, call, schedLock, isrStack,
                   waitFailures, semFor, evFor, asyncQueue, asyncSent, pendsv>>

\* k_sem_take(&semaphores[SECURE_SERVICE_ASYNC_CHANNEL], K_FOREVER)
PumpWait ==
    /\ ThreadMayRun(Pump)
    /\ pump.pc = "wait"
    /\ semaphores[SECURE_SERVICE_ASYNC_CHANNEL] > 0
    /\ semaphores' = k_sem_take(semaphores, SECURE_SERVICE_ASYNC_CHANNEL)
    /\ semFor' = SemForAfter(semaphores', SECURE_SERVICE_ASYNC_CHANNEL)
    /\ pump' = [pump EXCEPT !.pc = "get", !.queuedAtWake = Len(asyncQueue),
                            !.sinceWake = 0]
    /\ UNCHANGED <<alloc, egu, fota, codec, subscribed, channels, urcCallback,
                   events, slot, call, schedLock, isrStack, waitFailures,
                   evFor, asyncQueue, asyncSent, pendsv>>

\* ------------------------------------------------------------- arch_set_pendsv

\* The kernel asks for a context switch when the running thread blocks.
Blocks(t) ==
    IF t = Pump
    THEN pump.pc = "wait" /\ semaphores[SECURE_SERVICE_ASYNC_CHANNEL] = 0
    ELSE call[t].pc = "wait" /\ semaphores[call[t].channel] = 0

\* irq_lock(), up to the call of __PutSecureServiceRequest
ArchSetPendsvEnter(t) ==
    /\ ThreadMayRun(t)
    /\ Blocks(t)
    /\ pendsv' = [by |-> {t},
                  request |-> CREATE_REQUEST(0, SecureService_Kernel,
                                             Kernel_Api_PendSv)]
    /\ UNCHANGED <<alloc, egu, fota, codec, subscribed, channels, semaphores,
                   urcCallback, events, slot, call, schedLock, isrStack,
                   waitFailures, semFor, evFor, asyncVars>>

\* __PutSecureServiceRequest returns, its result is dropped; irq_unlock(key)
ArchSetPendsvReturn ==
    /\ pendsv.by # {}
    /\ \E r \in PutResults \ {0}, t \in pendsv.by :
          slot' = SecurePut(slot, pendsv.request, r, t)
    /\ pendsv' = NoPendsv
    /\ UNCHANGED <<alloc, egu, fota, codec, subscribed, channels, semaphores,
                   urcCallback, events, call, schedLock, isrStack,
                   waitFailures, semFor, evFor, asyncVars>>

\* --------------------------------------------------------- the older Call helper

\* if (!k_is_in_isr()) { k_sched_lock(); }
HelperLocks(t) == ~k_is_in_isr(t)

\* Call, up to the call of __Call
HelperEnter(t) ==
    /\ call[t].pc = "idle"
    /\ IF k_is_in_isr(t)
       THEN pendsv.by = {} /\ isrStack' = <<t>> \o isrStack
       ELSE ThreadMayRun(t) /\ UNCHANGED isrStack
    /\ schedLock' = [schedLock EXCEPT ![t] = IF HelperLocks(t) THEN @ + 1 ELSE @]
    /\ call' = [call EXCEPT ![t].pc = "inCall", ![t].inNsc = TRUE]
    /\ UNCHANGED <<alloc, egu, fota, codec, subscribed, channels, semaphores,
                   urcCallback, events, slot, waitFailures, semFor, evFor,
                   asyncVars, pendsv>>

\* __Call returns; if (!k_is_in_isr()) { k_sched_unlock(); }
HelperReturn(t) ==
    /\ MayRun(t)
    /\ call[t].pc = "inCall"
    /\ schedLock' = [schedLock EXCEPT ![t] = IF HelperLocks(t) THEN @ - 1 ELSE @]
    /\ call' = [call EXCEPT ![t] = Idle]
    /\ isrStack' = IsrStackAfterReturn(t)
    /\ UNCHANGED <<alloc, egu, fota, codec, subscribed, channels, semaphores,
                   urcCallback, events, slot, waitFailures, semFor, evFor,
                   asyncVars, pendsv>>

\* ------------------------------------------------------------------ behaviours

\* One step of caller t, but for a wait that fails.
CallerStep(t, ins) ==
    \/ ThreadCall(t, ins)
    \/ IsrCall(t, ins)
    \/ PreClear(t)
    \/ PutEnter(t)
    \/ PutReturn(t)
    \/ WaitSignalled(t)
    \/ GetEnter(t)
    \/ GetReturn(t)
    \/ Done(t)
    \/ Return(t)

Next ==
    \/ \E t \in FewCallers : CallerStep(t, Inputs(t)) \/ WaitFailed(t)
    \/ EguInterrupt
    \/ \E c \in Channels : SecureComplete(c)

Spec == Init /\ [][Next]_vars

\* The loaded system: more callers than channels.  Its threads are cooperative
\* (a thread keeps the processor until it waits or returns), so that they are
\* switched only where CallSecureService blocks, and a wait with K_FOREVER
\* does not fail.
Cooperative(t) ==
    t \in Threads => \A u \in Threads \ {t} : call[u].pc \in {"idle", "wait"}

NextLoad ==
    \/ \E t \in Callers : Cooperative(t) /\ CallerStep(t, LoadInputs(t))
    \/ EguInterrupt
    \/ \E c \in Channels : SecureComplete(c)

SpecLoad == Init /\ [][NextLoad]_vars

\* The system with the asynchronous pump, the context-switch request and the
\* older helper: one application thread and one interrupt handler call.
AsyncCallers == {1} \cup Isrs

NextAsync ==
    \/ \E t \in AsyncCallers :
          \/ CallerStep(t, Inputs(t))
          \/ HelperEnter(t)
          \/ HelperReturn(t)
    \/ \E t \in {1, Pump} : ArchSetPendsvEnter(t)
    \/ ArchSetPendsvReturn
    \/ PumpGetEnter
    \/ PumpGetReturn
    \/ PumpDispatch
    \/ PumpWait
    \/ SecureAsync
    \/ EguInterrupt
    \/ \E c \in Channels : SecureComplete(c)

SpecAsync == Init /\ [][NextAsync]_vars

\* The system under fair scheduling: two threads and an interrupt handler call
\* services of Secure firmware, and the interrupt handler subscribes to URCs
\* as well; a wait with K_FOREVER does not fail.
NextFair ==
    \/ \E t \in FewCallers : CallerStep(t, LoadInputs(t))
    \/ EguInterrupt
    \/ \E c \in Channels : SecureComplete(c)

\* The steps of CallSecureService once the caller is inside it.
Continue(t) ==
    \/ PreClear(t)
    \/ PutEnter(t)
    \/ PutReturn(t)
    \/ WaitSignalled(t)
    \/ GetEnter(t)
    \/ GetReturn(t)
    \/ Done(t)
    \/ Return(t)

\* A thread that is ready again and again is run; an interrupt handler that
\* is innermost again and again runs to its end (a nested interrupt suspends
\* it, so it is not continuously ready); Secure firmware completes every
\* request it has accepted, and the EGU interrupt is taken when an event is
\* pending.
Fairness ==
    /\ \A t \in 1 .. NumThreads : SF_vars(Continue(t))
    /\ \A t \in Isrs : SF_vars(Continue(t))
    /\ WF_vars(EguInterrupt)
    /\ \A c \in Channels : WF_vars(SecureComplete(c))

SpecFair == Init /\ [][NextFair]_vars /\ Fairness

\* The pump under fair scheduling: Secure firmware queues asynchronous
\* messages while one application thread subscribes to URCs and calls
\* services.
NextPumpFair ==
    \/ ThreadCall(1, Inputs(1))
    \/ Continue(1)
    \/ PumpGetEnter
    \/ PumpGetReturn
    \/ PumpDispatch
    \/ PumpWait
    \/ SecureAsync
    \/ EguInterrupt
    \/ \E c \in Channels : SecureComplete(c)

\* One step of MonitorAsync.
PumpStep == PumpGetEnter \/ PumpGetReturn \/ PumpDispatch \/ PumpWait

\* The pump and the application thread are run when they are ready again and
\* again, and the EGU interrupt is taken when an event is pending.
PumpFairness ==
    /\ SF_vars(PumpStep)
    /\ SF_vars(Continue(1))
    /\ WF_vars(EguInterrupt)

SpecPumpFair == Init /\ [][NextPumpFair]_vars /\ PumpFairness

\* The EGU interrupt handler on its own: it is run once on any events and
\* any semaphore counts, and what it found is kept.
InitEgu ==
    /\ channels = 0
    /\ urcCallback = 0
    /\ slot = [c \in Channels |-> NoExchange]
    /\ call = [t \in Callers |-> Idle]
    /\ schedLock = [t \in Callers \cup {Pump} |-> 0]
    /\ isrStack = <<>>
    /\ waitFailures = 0
    /\ semFor = [c \in AllChannels |-> {}]
    /\ evFor = [c \in AllChannels |-> {}]
    /\ pump = PumpStart
    /\ asyncQueue = <<>>
    /\ asyncSent = 0
    /\ pendsv = NoPendsv
    /\ subscribed = 0
    /\ fota = NoFota
    /\ codec = NoCodec
    /\ egu = NoEgu
    /\ alloc = NoAlloc
    /\ events \in [AllChannels -> BOOLEAN]
    /\ semaphores \in [AllChannels -> 0 .. SemLimit]

EguInterruptObserved ==
    /\ EguHandler
    /\ egu' = [ran |-> TRUE, events |-> events, semaphores |-> semaphores]

NextEgu == EguInterruptObserved

SpecEgu == InitEgu /\ [][NextEgu]_vars

\* The signalling of the whole system with the interrupt handler observed:
\* one application thread calls services and subscribes to URCs, the pump
\* drains, Secure firmware
\* completes requests and queues asynchronous messages.
NextSignals ==
    \/ ThreadCall(1, Inputs(1))
    \/ Continue(1)
    \/ PumpStep
    \/ SecureAsync
    \/ EguInterruptObserved
    \/ \E c \in Channels : SecureComplete(c)

SpecSignals == Init /\ [][NextSignals]_vars

\* The channel allocator on its own: ReserveChannel or FreeChannel is called
\* once on any bitmap, with any content of the uint8_t channel among the
\* bidirectional channels, the asynchronous channel and larger values.
AllocChannels == (0 .. (SECURE_SERVICE_CHANNEL_COUNT + 2)) \cup {15, 16, NoChannel}

InitAlloc ==
    /\ semaphores = [c \in AllChannels |-> 0]
    /\ urcCallback = 0
    /\ events = [c \in AllChannels |-> FALSE]
    /\ slot = [c \in Channels |-> NoExchange]
    /\ call = [t \in Callers |-> Idle]
    /\ schedLock = [t \in Callers \cup {Pump} |-> 0]
    /\ isrStack = <<>>
    /\ waitFailures = 0
    /\ semFor = [c \in AllChannels |-> {}]
    /\ evFor = [c \in AllChannels |-> {}]
    /\ pump = PumpStart
    /\ asyncQueue = <<>>
    /\ asyncSent = 0
    /\ pendsv = NoPendsv
    /\ subscribed = 0
    /\ fota = NoFota
    /\ codec = NoCodec
    /\ egu = NoEgu
    /\ channels \in Bitmaps
    /\ \E c \in AllocChannels :
           alloc = [NoAlloc EXCEPT !.pc = "input", !.arg = c, !.channel = c]

\* What the allocator leaves alone.
allocFrame ==
    <<semaphores, urcCallback, events, slot, call, schedLock, isrStack,
      waitFailures, semFor, evFor, pump, asyncQueue, asyncSent, pendsv,
      subscribed, codec, fota, egu>>

\* reserved = ReserveChannel(&channel)
AllocReserve ==
    /\ alloc.pc = "input"
    /\ LET r == ReserveChannel(channels, alloc.channel) IN
       /\ channels' = r.channels
       /\ alloc' = [alloc EXCEPT !.pc = "reserved", !.before = channels,
                                 !.channel = r.channel,
                                 !.reserved = r.reserved]
    /\ UNCHANGED allocFrame

\* FreeChannel(channel)
AllocFree ==
    /\ alloc.pc = "input"
    /\ channels' = FreeChannel(channels, alloc.channel)
    /\ alloc' = [alloc EXCEPT !.pc = "freed", !.before = channels]
    /\ UNCHANGED allocFrame

NextAlloc == AllocReserve \/ AllocFree

SpecAlloc == InitAlloc /\ [][NextAlloc]_vars

\* The start of the pump: Secure firmware has queued up to MaxAsync messages
\* before secure_service_thread runs, and no event stands for them; every
\* semaphore was initialised with no signal.
QueuedAtStart(k) ==
    [i \in 1 .. k |-> [event |-> Async_Event_AtUrc, buffer |-> i]]

InitStartup ==
    /\ channels = 0
    /\ semaphores = [c \in AllChannels |-> 0]
    /\ urcCallback = 0
    /\ events = [c \in AllChannels |-> FALSE]
    /\ slot = [c \in Channels |-> NoExchange]
    /\ call = [t \in Callers |-> Idle]
    /\ schedLock = [t \in Callers \cup {Pump} |-> 0]
    /\ isrStack = <<>>
    /\ waitFailures = 0
    /\ semFor = [c \in AllChannels |-> {}]
    /\ evFor = [c \in AllChannels |-> {}]
    /\ pump = PumpStart
    /\ \E k \in 0 .. MaxAsync :
          /\ asyncQueue = QueuedAtStart(k)
          /\ asyncSent = k
    /\ pendsv = NoPendsv
    /\ subscribed = 0
    /\ fota = NoFota
    /\ egu = NoEgu
    /\ alloc = NoAlloc
    /\ codec = NoCodec

SpecStartup == InitStartup /\ [][NextPumpFair]_vars /\ PumpFairness

\* Concurrent subscriptions: two threads and an interrupt handler call
\* SubscribeUrcs with well-formed parameters and a callback that is not NULL,
\* next to their requests to Secure firmware.
ConcurrentInputs(t) ==
    {ServiceInput(t)}
    \cup { [service |-> SecureService_At, api |-> At_Api_SubscribeUrcs,
            parameters |-> [null |-> FALSE, callback |-> cb],
            size |-> SizeofSubscribeUrcsParameters] : cb \in Callbacks \ {0} }

NextSubscribe ==
    \/ \E t \in FewCallers : CallerStep(t, ConcurrentInputs(t))
    \/ EguInterrupt
    \/ \E c \in Channels : SecureComplete(c)

SpecSubscribe == Init /\ [][NextSubscribe]_vars

\* The request encoding on its own: a request word is built from a channel, a
\* service and an api, and taken apart again.
\* Every service, and the apis with one bit set or with all low bits set.
EncodeServices == 0 .. 255

EncodeApis == {2 ^ k : k \in 0 .. 15} \cup {(2 ^ k) - 1 : k \in 0 .. 16}

InitEncode ==
    /\ channels = 0
    /\ semaphores = [c \in AllChannels |-> 0]
    /\ urcCallback = 0
    /\ events = [c \in AllChannels |-> FALSE]
    /\ slot = [c \in Channels |-> NoExchange]
    /\ call = [t \in Callers |-> Idle]
    /\ schedLock = [t \in Callers \cup {Pump} |-> 0]
    /\ isrStack = <<>>
    /\ waitFailures = 0
    /\ semFor = [c \in AllChannels |-> {}]
    /\ evFor = [c \in AllChannels |-> {}]
    /\ pump = PumpStart
    /\ asyncQueue = <<>>
    /\ asyncSent = 0
    /\ pendsv = NoPendsv
    /\ subscribed = 0
    /\ fota = NoFota
    /\ egu = NoEgu
    /\ alloc = NoAlloc
    /\ \E c \in AllChannels, sv \in EncodeServices, a \in EncodeApis :
           codec = [NoCodec EXCEPT !.pc = "input", !.channel = c,
                                   !.service = sv, !.api = a]

\* What the fota_download library leaves alone.
programVarsButFota ==
    <<channels, semaphores, urcCallback, events, slot, call, schedLock,
      isrStack, waitFailures, semFor, evFor, pump, asyncQueue, asyncSent,
      pendsv, subscribed, codec, egu, alloc>>

\* What leaves the request encoding alone.
programVars ==
    <<channels, semaphores, urcCallback, events, slot, call, schedLock,
      isrStack, waitFailures, semFor, evFor, pump, asyncQueue, asyncSent,
      pendsv, subscribed, fota, egu, alloc>>

Encode ==
    /\ codec.pc = "input"
    /\ codec' = [codec EXCEPT
           !.pc = "encoded",
           !.request = CREATE_REQUEST(codec.channel, codec.service, codec.api)]
    /\ UNCHANGED programVars

Decode ==
    /\ codec.pc = "encoded"
    /\ codec' = [codec EXCEPT
           !.pc = "decoded",
           !.decoded = <<GET_CHANNEL(codec.request), GET_SERVICE(codec.request),
                         GET_API(codec.request)>>]
    /\ UNCHANGED programVars

NextEncode == Encode \/ Decode

SpecEncode == InitEncode /\ [][NextEncode]_vars

\* ---------------------------------------------------------------------
\* The fota_download library on top of at_cmd_write.

MaxFotaCommands == 2

MaxFotaUrcs == 2

EINVAL == 22

EALREADY == 120

ENOEXEC == 8

ENOBUFS == 105

CME_PHONE_IS_BUSY == 258

At_Result_Success == 0

At_Result_Cme == 1

At_Result_Cms == 2

At_Result_ExtendedCme == 3

CONFIG_FOTA_DOWNLOAD_PROGRESS_EVT == TRUE

absKeepsSign(x) == x

abs(x) == IF x < 0 THEN -x ELSE x

\* What Call returns to At_RunCommand: 0, a failure of CallSecureService or a
\* result of the transport.
RunResults == {0, -ETIMEDOUT, ENOMEM}

AtResults ==
    {At_Result_Success, At_Result_Cme, At_Result_Cms, At_Result_ExtendedCme}

\* Error values of the modem: none, 'operation not allowed', 'phone is busy',
\* and an error value that arrives negative.
AtErrors == {0, 3, CME_PHONE_IS_BUSY, -3}

\* at_cmd_write after At_RunCommand has returned run with the result and the
\* error of the command; state is what the caller's variable held before.
at_cmd_write(run, atResult, atError, state) ==
    IF run # 0
    THEN [result |-> -abs(run), state |-> state]
    ELSE CASE atResult = At_Result_Success ->
                  [result |-> 0, state |-> "AT_CMD_OK"]
           [] atResult = At_Result_Cme ->
                  [result |-> abs(atError), state |-> "AT_CMD_ERROR_CME"]
           [] atResult = At_Result_ExtendedCme ->
                  [result |-> abs(atError), state |-> "AT_CMD_ERROR_CME"]
           [] atResult = At_Result_Cms ->
                  [result |-> abs(atError), state |-> "AT_CMD_ERROR_CMS"]
           [] OTHER ->
                  [result |-> abs(atError), state |-> "AT_CMD_ERROR"]

\* fota_download_start from the return of at_cmd_write on: what it returns,
\* and the flag as it leaves it.
AfterCommand(w, started) ==
    IF w.result # 0
    THEN [ret |-> w.result, fotaStarted |-> started]
    ELSE IF w.state = "AT_CMD_ERROR_CME" /\ w.result = CME_PHONE_IS_BUSY
    THEN [ret |-> -EALREADY, fotaStarted |-> started]
    ELSE IF w.state # "AT_CMD_OK"
    THEN [ret |-> -ENOEXEC, fotaStarted |-> started]
    ELSE [ret |-> 0, fotaStarted |-> FALSE]

\* The URCs, as the characters of the string.
FotaUrcs ==
    {<<"D", "F", "U", ":", " ", "0">>,
     <<"D", "F", "U", ":", " ", "1">>,
     <<"D", "F", "U", ":", " ", "2", ",", "5", "0">>,
     <<"D", "F", "U", ":", " ", "2">>,
     <<"D", "F", "U", ":", " ", "3">>,
     <<"D", "F", "U", ":", " ", "7">>,
     <<"D", "F", "U", ":", " ", "x">>,
     <<"D", "F", "U", ":", "3">>,
     <<"C", "E", "R", "E", "G", ":", " ", "3">>}

DecimalDigits == <<"0", "1", "2", "3", "4", "5", "6", "7", "8", "9">>

IsDigit(ch) == \E k \in 1 .. 10 : DecimalDigits[k] = ch

DigitValue(ch) == (CHOOSE k \in 1 .. 10 : DecimalDigits[k] = ch) - 1

\* strncmp(urc, "DFU: ", 4) == 0
LooksLikeDfu(urc) ==
    /\ Len(urc) >= 4
    /\ SubSeq(urc, 1, 4) = <<"D", "F", "U", ":">>

\* strchr(urc, ' '): the place of the first space, 0 for NULL.
RECURSIVE strchrFrom(_, _, _)
strchrFrom(urc, ch, i) ==
    IF i > Len(urc) THEN 0
    ELSE IF urc[i] = ch THEN i
    ELSE strchrFrom(urc, ch, i + 1)

strchr(urc, ch) == strchrFrom(urc, ch, 1)

RECURSIVE SkipSpace(_, _)
SkipSpace(urc, i) ==
    IF i <= Len(urc) /\ urc[i] = " " THEN SkipSpace(urc, i + 1) ELSE i

RECURSIVE ReadDigits(_, _, _)
ReadDigits(urc, i, acc) ==
    IF i <= Len(urc) /\ IsDigit(urc[i])
    THEN ReadDigits(urc, i + 1, ((acc * 10) + DigitValue(urc[i])) % (2 ^ 16))
    ELSE [value |-> acc, end |-> i]

\* strtoul(&urc[start], &end, 0) for the decimal numbers of FotaUrcs: the
\* value, and the place where the conversion stopped; without a digit the
\* value is 0 and end is the start.
strtoul(urc, start) ==
    LET i == SkipSpace(urc, start)
        r == ReadDigits(urc, i, 0) IN
    IF r.end = i THEN [value |-> 0, end |-> start] ELSE r

\* SendEvent: the client callback is invoked if there is one.
SendEvent(f, event) ==
    IF f.callback # 0 THEN [f EXCEPT !.events = Append(@, event)] ELSE f

\* The progress of a 'DFU: 2' URC.  end + 1 is past the terminator of the
\* string when the conversion of the event id stopped at the terminator; what
\* is read there is beyond.
Progress(urc, end, beyond) ==
    IF ~CONFIG_FOTA_DOWNLOAD_PROGRESS_EVT THEN 0
    ELSE IF end = 0 THEN 0
    ELSE IF end + 1 > Len(urc) + 1 THEN beyond
    ELSE strtoul(urc, end + 1).value

\* UrcCallback of the library on the statics f.
FotaUrcCallback(f, urc, beyond) ==
    IF ~f.fotaStarted THEN f
    ELSE IF ~LooksLikeDfu(urc) THEN f
    ELSE LET start == strchr(urc, " ") IN
         IF start = 0 THEN f
         ELSE LET n == strtoul(urc, start) IN
              IF n.value = 0 /\ n.end = 0 THEN f
              ELSE CASE n.value = 1 -> f
                     [] n.value = 2 ->
                            SendEvent(f, [id |-> "FOTA_DOWNLOAD_EVT_PROGRESS",
                                          offset |-> Progress(urc, n.end, beyond)])
                     [] n.value = 3 ->
                            SendEvent([f EXCEPT !.fotaStarted = FALSE],
                                      [id |-> "FOTA_DOWNLOAD_EVT_FINISHED",
                                       offset |-> 0])
                     [] OTHER ->
                            SendEvent([f EXCEPT !.fotaStarted = FALSE],
                                      [id |-> "FOTA_DOWNLOAD_EVT_ERROR",
                                       offset |-> 0])

\* A URC that reports the end of a download: rejected or finished.
IsTerminalUrc(urc) ==
    /\ LooksLikeDfu(urc)
    /\ strchr(urc, " ") # 0
    /\ strtoul(urc, strchr(urc, " ")).value \notin {1, 2}

fota_download_init(client_callback) ==
    /\ fota.pc = "idle"
    /\ fota' = IF client_callback = 0
               THEN [fota EXCEPT !.returned = FALSE]
               ELSE [fota EXCEPT !.handler = TRUE,
                                 !.callback = client_callback,
                                 !.fotaStarted = FALSE,
                                 !.returned = FALSE,
                                 !.pending = FALSE]
    /\ UNCHANGED programVarsButFota

\* fota_download_start up to its call of at_cmd_write; fits tells whether
\* host and file fit in the command buffer.
FotaStartEnter(fits) ==
    /\ fota.pc = "idle"
    /\ LET f == [fota EXCEPT !.pendingAtCall = fota.pending,
                             !.commanded = FALSE,
                             !.answer = <<>>,
                             !.state = "unset",
                             !.result = 0,
                             !.returned = TRUE] IN
       IF fota.fotaStarted
       THEN fota' = [f EXCEPT !.ret = -EALREADY]
       ELSE IF ~fits
       THEN fota' = [f EXCEPT !.ret = -ENOBUFS]
       ELSE /\ fota.issued < MaxFotaCommands
            /\ fota' = [f EXCEPT !.pc = "cmd",
                                 !.returned = FALSE,
                                 !.commanded = TRUE,
                                 !.issued = @ + 1]
    /\ UNCHANGED programVarsButFota

\* at_cmd_write returns with the modem's answer and fota_download_start runs
\* to its return.
FotaStartReturn(run, atResult, atError) ==
    /\ fota.pc = "cmd"
    /\ LET w == at_cmd_write(run, atResult, atError, fota.state)
           r == AfterCommand(w, fota.fotaStarted) IN
       fota' = [fota EXCEPT !.pc = "idle",
                            !.returned = TRUE,
                            !.ret = r.ret,
                            !.state = w.state,
                            !.result = w.result,
                            !.answer = <<run, atResult, atError>>,
                            !.fotaStarted = r.fotaStarted,
                            !.pending = IF r.ret = 0 THEN TRUE ELSE @]
    /\ UNCHANGED programVarsButFota

\* The AT notification handler is run with a URC.
FotaUrc(urc, beyond) ==
    /\ fota.handler
    /\ fota.urcs < MaxFotaUrcs
    /\ fota' = [FotaUrcCallback(fota, urc, beyond) EXCEPT
                   !.urcs = @ + 1,
                   !.pending = IF IsTerminalUrc(urc) THEN FALSE ELSE @]
    /\ UNCHANGED programVarsButFota

NextFota ==
    \/ \E cb \in {0, 1} : fota_download_init(cb)
    \/ \E fits \in BOOLEAN : FotaStartEnter(fits)
    \/ \E run \in RunResults, atResult \in AtResults, atError \in AtErrors :
           FotaStartReturn(run, atResult, atError)
    \/ \E urc \in FotaUrcs, beyond \in {0, 1} : FotaUrc(urc, beyond)

SpecFota == Init /\ [][NextFota]_vars


TypeOK ==
    /\ channels \in 0 .. ((2 ^ 16) - 1)
    /\ \A c \in AllChannels : semaphores[c] \in 0 .. SemLimit

\* ----------------------------------------------------------------- properties

\* The places of CallSecureService at which the caller holds a reservation.
HoldingPcs == {"preclear", "put", "inPut", "wait", "get", "inGet", "done"}

Holds(t) == call[t].pc \in HoldingPcs

ChannelBit(chs, c) == BitAnd(chs, 2 ^ c) # 0

AllReserved == \A c \in Channels : ChannelBit(channels, c)

Contains(seq, x) == \E i \in 1 .. Len(seq) : seq[i] = x

\* C1: no channel index is held by two outstanding reservations at the same
\* time: the callers between ReserveChannel and FreeChannel hold pairwise
\* different channels, each a bidirectional channel whose bit is set.
C1_ChannelExclusive ==
    \A t \in Callers :
        Holds(t) =>
            /\ call[t].channel \in Channels
            /\ ChannelBit(channels, call[t].channel)
            /\ \A u \in Callers \ {t} :
                   Holds(u) => call[u].channel # call[t].channel

\* C1 witness: a thread and an interrupt handler hold reservations at once.
C1_Witness ==
    \E t \in Threads, i \in Isrs :
        /\ Holds(t) /\ Holds(i)
        /\ call[t].channel # call[i].channel

\* C2: a call that reserved a channel frees it on every path: the bits set in
\* the bitmap are exactly the channels of the calls that have not returned yet,
\* so that the bitmap is back at its value whenever the calls have completed.
C2_NoChannelLeak ==
    \A c \in 0 .. 15 :
        ChannelBit(channels, c) <=>
            \E t \in Callers : Holds(t) /\ call[t].channel = c

\* C2 witness: a call whose wait failed has returned, every caller is outside
\* CallSecureService and the bitmap is empty again.
C2_Witness ==
    /\ waitFailures > 0
    /\ \A t \in Callers : call[t].pc = "idle"
    /\ channels = 0

\* C3: the fetch is made with the request word of the same call's enqueue
\* (its own channel, service and api), only after a signal was taken from the
\* semaphore of its channel, and what it obtains is the exchange of that
\* request, never that of another channel or caller.
C3_Correlation ==
    \A t \in Callers :
        Contains(call[t].trace, "get") =>
            /\ call[t].getRequest = call[t].putRequest
            /\ GET_CHANNEL(call[t].getRequest) = call[t].channel
            /\ GET_SERVICE(call[t].getRequest) = call[t].arg.service
            /\ GET_API(call[t].getRequest) = call[t].arg.api
            /\ call[t].trace = <<"reserve", "preclear", "put", "wait", "get">>
            /\ call[t].fetched # NoExchange =>
                   /\ call[t].fetched.request = call[t].putRequest
                   /\ call[t].fetched.owner = {t}

\* C3 witness: a call has fetched its response while another call is in
\* flight on another channel.
C3_Witness ==
    \E t \in Callers, u \in Callers :
        /\ t # u
        /\ call[t].pc = "done"
        /\ call[t].fetched # NoExchange
        /\ call[u].pc = "wait"
        /\ call[u].channel < call[t].channel

\* C4: with all N channels reserved, a call for a service that is not handled
\* internally fails in its first step: it waits nowhere, has called neither
\* entry point, and leaves bitmap, semaphores and Secure exchanges as they were.
C4_ExhaustedFailsAtOnce ==
    [][\A t \in Callers :
          (/\ AllReserved
           /\ call[t].pc = "idle"
           /\ call'[t].pc # "idle"
           /\ ~HandleInternalService(call'[t].arg, urcCallback).handled)
          => /\ call'[t].pc = "ret"
             /\ call'[t].result < 0
             /\ call'[t].trace = <<"nochannel">>
             /\ call'[t].putRequest = NoRequest
             /\ call'[t].getRequest = NoRequest
             /\ ~call'[t].inNsc
             /\ channels' = channels
             /\ semaphores' = semaphores
             /\ slot' = slot]_vars

\* C4 witness: a call has failed for want of a channel while all are reserved.
C4_Witness ==
    /\ AllReserved
    /\ \E t \in Callers :
           call[t].pc = "ret" /\ call[t].trace = <<"nochannel">>

\* C5: a call that found a stale signal in its channel's semaphore when it
\* reserved the channel goes on to the fetch only on a signal raised for its
\* own request.
C5_WaitsForOwnSignal ==
    \A t \in Callers :
        (call[t].staleAtReserve /\ Contains(call[t].trace, "wait"))
            => t \in call[t].wokeFor

\* C5 witness: such a call has taken its signal and is fetching.
C5_Witness ==
    \E t \in Callers : call[t].staleAtReserve /\ call[t].pc = "inGet"

\* Thread x is inside a Non-Secure-Callable entry point.
InEntryPoint(x) ==
    \/ x \in pendsv.by
    \/ IF x = Pump THEN pump.inNsc ELSE call[x].inNsc

\* Where thread x is in its code.
ContextState(x) == IF x = Pump THEN pump ELSE call[x]

\* C6: while a thread is inside an entry point of Secure firmware (from the
\* dispatcher's wrappers, the pump, arch_set_pendsv or the older Call helper)
\* its preemption is suppressed, by the scheduler lock or by the interrupt
\* lock, and no other thread executes a step until it has returned.
C6_NoSwitchInsideEntryPoint ==
    [][\A x \in ThreadContexts :
          InEntryPoint(x) =>
              /\ schedLock[x] > 0 \/ x \in pendsv.by
              /\ \A y \in ThreadContexts \ {x} :
                     /\ ContextState(y)' = ContextState(y)
                     /\ y \notin pendsv'.by]_vars

\* C6 witness: the pump is inside the fetch entry point while the application
\* thread, switched out in the middle of a call, could otherwise run.
C6_Witness ==
    /\ pump.inNsc
    /\ isrStack = <<>>
    /\ \A c \in AllChannels : ~events[c]
    /\ \E t \in Threads : call[t].pc \in {"preclear", "put", "get", "done"}

\* C7: when the enqueue returns 1 the call returns 0, has neither waited nor
\* fetched, and its return frees the channel.
C7_HandledImmediately ==
    [][\A t \in Callers :
          (call[t].pc = "done" /\ call[t].putResult = 1)
          => /\ call[t].result = 0
             /\ call[t].trace = <<"reserve", "preclear", "put">>
             /\ call[t].getRequest = NoRequest
             /\ (call'[t] # call[t] =>
                    /\ call'[t].pc = "idle"
                    /\ ~ChannelBit(channels', call[t].channel))]_vars

\* C7 witness: an enqueue has returned 1.
C7_Witness ==
    \E t \in Callers : call[t].pc = "done" /\ call[t].putResult = 1

\* C8: when the enqueue returned 0 and the wait succeeded, the fetch is
\* called exactly once and its return value is the call's result.
C8_GetResultVerbatim ==
    \A t \in Callers :
        (call[t].pc = "done" /\ Contains(call[t].trace, "wait"))
            => /\ call[t].putResult = 0
               /\ call[t].trace = <<"reserve", "preclear", "put", "wait", "get">>
               /\ call[t].result = call[t].getResult

\* C8 witness: a fetch has returned a positive value.
C8_Witness ==
    \E t \in Callers : call[t].pc = "done" /\ call[t].getResult > 0

\* The enqueue returned a value other than 0 and 1.
PutRefused(t) == call[t].pc = "done" /\ call[t].putResult \notin {0, 1}

\* The first half of C9: such a value is returned unchanged, without a wait
\* and without a fetch.
PutErrorVerbatim ==
    \A t \in Callers :
        PutRefused(t) =>
            /\ call[t].result = call[t].putResult
            /\ call[t].trace = <<"reserve", "preclear", "put">>
            /\ call[t].getRequest = NoRequest

\* C9 as stated: a value of the enqueue other than 0 and 1 is returned
\* unchanged, and -EAGAIN is the result of a call on no other path.
C9_Original ==
    /\ PutErrorVerbatim
    /\ \A t \in Callers :
           (call[t].pc \in {"done", "ret"} /\ call[t].result = -EAGAIN)
               => call[t].putResult = -EAGAIN

\* C9 as amended: a value of the enqueue other than 0 and 1 is returned
\* unchanged, and -EAGAIN is the result of a call only as the unchanged return
\* value of the enqueue or of the fetch.
C9_Amended ==
    /\ PutErrorVerbatim
    /\ \A t \in Callers :
           (call[t].pc \in {"done", "ret"} /\ call[t].result = -EAGAIN)
               => \/ call[t].putResult = -EAGAIN
                  \/ /\ Contains(call[t].trace, "get")
                     /\ call[t].getResult = -EAGAIN

\* C9 witness: the enqueue has returned -EAGAIN.
C9_Witness ==
    \E t \in Callers : PutRefused(t) /\ call[t].putResult = -EAGAIN

\* The call of t has failed for want of a channel.
NoChannelFailure(t) == call[t].pc = "ret" /\ call[t].trace = <<"nochannel">>

\* The call of t has failed in the transport (the enqueue failed to queue the
\* request) or in its wait.
TransportFailure(t) ==
    /\ call[t].pc = "done"
    /\ \/ call[t].putResult = -ETIMEDOUT
       \/ Contains(call[t].trace, "waitfailed")

\* C10: the result of a call that found no free channel differs from the
\* result of every call that failed in the transport or in its wait.
C10_NoChannelDistinct ==
    \A t \in Callers, u \in Callers :
        (NoChannelFailure(t) /\ TransportFailure(u))
            => call[t].result # call[u].result

\* This step is a call of t that HandleInternalService handled.
SubscribeHandled(t) ==
    /\ call[t].pc = "idle"
    /\ call'[t].pc = "ret"
    /\ call'[t].trace = <<"internal">>

\* Parameters SubscribeUrcs accepts: a structure of the right size.
WellFormed(in) ==
    ~in.parameters.null /\ in.size = SizeofSubscribeUrcsParameters

\* A call of t that HandleInternalService handled has its result.
SubscribeDone(t) == call[t].pc = "ret" /\ call[t].trace = <<"internal">>

C12_SetExactlyOnce ==
    [][/\ subscribed' <= 1
       /\ subscribed > 0 => urcCallback' = urcCallback]_vars

\* The request is one for (service = AT, api = SubscribeUrcs).
IsSubscribe(in) ==
    in.service = SecureService_At /\ in.api = At_Api_SubscribeUrcs

\* C13: a call for (AT, SubscribeUrcs) is handled on the Non-Secure side, also
\* while all N channels are reserved: its first step gives it its result and
\* leaves the bitmap, the semaphores, the events, the scheduler lock and the
\* exchanges of Secure firmware alone, it holds no channel and has been in no
\* entry point, and its next step is its return.
C13_SubscribeStaysNonSecure ==
    [][\A t \in Callers :
          /\ (/\ call[t].pc = "idle"
              /\ call'[t].pc # "idle"
              /\ IsSubscribe(call'[t].arg))
             => /\ SubscribeHandled(t)
                /\ call'[t].result \in {0, -ENOMEM}
                /\ call'[t].channel = NoChannel
                /\ call'[t].putRequest = NoRequest
                /\ call'[t].getRequest = NoRequest
                /\ ~call'[t].inNsc
                /\ channels' = channels
                /\ semaphores' = semaphores
                /\ events' = events
                /\ schedLock' = schedLock
                /\ slot' = slot
          /\ (SubscribeDone(t) /\ call'[t] # call[t])
             => /\ call'[t] = Idle
                /\ channels' = channels
                /\ semaphores' = semaphores
                /\ slot' = slot]_vars

\* C13 witness: a subscription has succeeded while all channels are reserved.
C13_Witness ==
    /\ AllReserved
    /\ \E t \in Callers : SubscribeDone(t) /\ call[t].result = 0

\* The buffers of the first n messages Secure firmware queued.
FirstMessages(n) == [i \in 1 .. n |-> i]

\* C14: the pump goes to its wait only from a fetch on the asynchronous
\* request word that returned non-zero; by then it has fetched, in the order
\* they were queued, at least the k messages that were queued when its wait
\* last returned, and has dispatched each of them in that order.
C14_DrainsBeforeBlocking ==
    [][(pump.pc # "wait" /\ pump'.pc = "wait")
          => /\ pump.pc = "inGet"
             /\ pump.request = AsyncRequestWord
             /\ GET_CHANNEL(pump.request) = SECURE_SERVICE_ASYNC_CHANNEL
             /\ pump'.result # 0
             /\ pump'.sinceWake >= pump'.queuedAtWake
             /\ pump'.fetched = FirstMessages(Len(pump'.fetched))
             /\ pump'.dispatched = pump'.fetched]_vars

\* C14 witness: two messages were queued when one signal woke the pump, and
\* the pump has fetched both and is back at its wait.
C14_Witness ==
    /\ pump.pc = "wait"
    /\ pump.queuedAtWake = 2
    /\ pump.sinceWake = 2
    /\ pump.dispatched = <<1, 2>>

\* C15: GET_CHANNEL, GET_SERVICE and GET_API applied to
\* CREATE_REQUEST(channel, service, api) give back channel, service and api,
\* for the channels 0..N and services and apis over their whole ranges.
C15_RequestRoundTrip ==
    codec.pc = "decoded" =>
        codec.decoded = <<codec.channel, codec.service, codec.api>>

\* C15 witness: the asynchronous channel with the largest service and api has
\* been encoded and decoded.
C15_Witness ==
    /\ codec.pc = "decoded"
    /\ codec.channel = SECURE_SERVICE_ASYNC_CHANNEL
    /\ codec.service = 255
    /\ codec.api = 65535

\* The call of t is blocked in its wait: Secure firmware has not signalled.
Wedged(t) ==
    /\ call[t].pc = "wait"
    /\ semaphores[call[t].channel] = 0

\* Every channel is held by a call blocked in its wait.
AllWedged ==
    \A c \in Channels : \E t \in Callers : Wedged(t) /\ call[t].channel = c

C17_InterruptCall ==
    [][\A t \in Isrs :
          /\ schedLock[t] = 0 /\ schedLock'[t] = 0
          /\ ~call[t].locked
          /\ (call[t].pc = "done" /\ call[t].putResult = 1)
             => /\ call[t].result = 0
                /\ call[t].trace = <<"reserve", "preclear", "put">>
                /\ call'[t] # call[t] =>
                       /\ call'[t] = Idle
                       /\ ~ChannelBit(channels', call[t].channel)
                       /\ semaphores' = semaphores
          /\ (call'[t] # call[t] /\ semaphores' # semaphores)
             => /\ call[t].pc = "preclear"
                /\ call'[t].pc = "put"
                /\ semaphores' =
                       [semaphores EXCEPT ![call[t].channel] = 0]]_vars

\* C17 witness: an interrupt handler's enqueue has returned 1, on a channel
\* whose semaphore held a stale signal that the pre-clear took.
C17_Witness ==
    \E t \in Isrs :
        /\ call[t].pc = "done"
        /\ call[t].putResult = 1
        /\ call[t].staleAtReserve

\* The steps of CallSecureService that a caller holding a channel takes
\* without waiting.
HolderStep(u) ==
    \/ PreClear(u)
    \/ PutEnter(u)
    \/ PutReturn(u)
    \/ GetEnter(u)
    \/ GetReturn(u)
    \/ Done(u)

\* C18: calls on distinct channels are independent.  A step of a call that
\* holds channel j leaves the bit, the semaphore, the event and the exchange
\* of every other channel as they were, and the interrupt gives a semaphore
\* only for that channel's own event.  While every other thread is blocked in
\* its wait, a call that holds channel j can take its next step whenever its
\* thread is the one running, its request can be completed, its event can be
\* handled and its signal taken.
C18_ChannelsIndependent ==
    [][/\ \A u \in Callers :
              (Holds(u) /\ call'[u] # call[u]) =>
                  \A c \in Channels \ {call[u].channel} :
                      /\ ChannelBit(channels', c) <=> ChannelBit(channels, c)
                      /\ semaphores'[c] = semaphores[c]
                      /\ events'[c] = events[c]
                      /\ slot'[c] = slot[c]
       /\ \A c \in Channels :
              semaphores'[c] > semaphores[c] => events[c] /\ ~events'[c]
       /\ \A u \in Threads :
              (Holds(u) /\ \A t \in Threads \ {u} : Wedged(t)) =>
                  /\ (call[u].pc # "wait" /\ ThreadMayRun(u) /\ Cooperative(u))
                         => ENABLED HolderStep(u)
                  /\ (call[u].pc = "wait" /\ slot[call[u].channel].st = "inflight")
                         => ENABLED SecureComplete(call[u].channel)
                  /\ (events[call[u].channel] /\ pendsv.by = {})
                         => ENABLED EguInterrupt
                  /\ (/\ call[u].pc = "wait"
                      /\ semaphores[call[u].channel] > 0
                      /\ ThreadMayRun(u))
                         => ENABLED WaitSignalled(u)]_vars

\* C18 witness: four calls are in flight at once, and the call on the highest
\* channel, the last to be submitted, has its response while the three others
\* are still blocked.
C18_Witness ==
    \E u \in Threads :
        /\ call[u].pc = "done"
        /\ call[u].channel = SECURE_SERVICE_CHANNEL_COUNT - 1
        /\ call[u].fetched # NoExchange
        /\ \A t \in Threads \ {u} :
               Wedged(t) /\ slot[call[t].channel].st = "inflight"

\* A failure of the AT#XFOTA command that the last fota_download_start issued:
\* the call did not go through, or the modem answered with an error.
CommandFailed ==
    /\ fota.pc = "idle"
    /\ fota.commanded
    /\ \/ fota.answer[1] # 0
       \/ fota.answer[2] # At_Result_Success

\* The modem answered the command with the CME error 'phone is busy'.
PhoneIsBusy ==
    /\ CommandFailed
    /\ fota.answer[1] = 0
    /\ fota.answer[2] \in {At_Result_Cme, At_Result_ExtendedCme}
    /\ fota.answer[3] = CME_PHONE_IS_BUSY

\* C19: a fota_download_start that is called after an earlier one returned 0,
\* with no terminal DFU URC and no fota_download_init in between, returns
\* -EALREADY and issues no AT#XFOTA command.
C19_SecondStartRefused ==
    fota.pendingAtCall =>
        /\ fota.pc = "idle"
        /\ ~fota.commanded
        /\ fota.returned => fota.ret = -EALREADY

\* C20: when the AT#XFOTA command fails with the CME error 'phone is busy',
\* fota_download_start returns -EALREADY, and when it fails in any other way,
\* -ENOEXEC.
C20_CommandFailureCodes ==
    (CommandFailed /\ fota.returned) =>
        fota.ret = IF PhoneIsBusy THEN -EALREADY ELSE -ENOEXEC

WaitingCallSteps == <<"reserve", "preclear", "put", "wait", "get">>

\* The steps a call has taken when it is at a place of CallSecureService on
\* the way that leads through the wait.
StepsAt(pc) ==
    CASE pc = "preclear" -> SubSeq(WaitingCallSteps, 1, 1)
      [] pc = "put" -> SubSeq(WaitingCallSteps, 1, 2)
      [] pc = "inPut" -> SubSeq(WaitingCallSteps, 1, 3)
      [] pc = "wait" -> SubSeq(WaitingCallSteps, 1, 3)
      [] pc = "get" -> SubSeq(WaitingCallSteps, 1, 4)
      [] pc = "inGet" -> SubSeq(WaitingCallSteps, 1, 5)
      [] OTHER -> WaitingCallSteps

\* A call whose request was queued and whose wait has returned with a signal.
HasWaited(t) == call[t].putResult = 0 /\ Contains(call[t].trace, "wait")

\* C22: a call that waits for its response reserves its channel, pre-clears
\* the semaphore, submits, waits, fetches and frees, in this order and each
\* once; from the reservation to the free step its channel's bit is set, and
\* the free step clears it.
C22_StepsInOrder ==
    [][\A t \in Callers :
          /\ (Holds(t) /\ (call[t].pc = "done" => HasWaited(t)))
                => call[t].trace = StepsAt(call[t].pc)
          /\ Holds(t) => ChannelBit(channels, call[t].channel)
          /\ (Holds(t) /\ call'[t] # call[t] /\ call[t].pc # "done")
                => /\ Holds(t)'
                   /\ call'[t].channel = call[t].channel
          /\ (call[t].pc = "done" /\ HasWaited(t) /\ call'[t] # call[t])
                => /\ call'[t] = Idle
                   /\ ~ChannelBit(channels', call[t].channel)
          /\ (call[t].pc = "idle" /\ Holds(t)')
                => /\ ~ChannelBit(channels, call'[t].channel)
                   /\ ChannelBit(channels', call'[t].channel)]_vars

\* C22 witness: a call has reserved, pre-cleared, submitted, waited and
\* fetched, and stands before its free step with its bit set.
C22_Witness ==
    \E t \in Threads :
        /\ call[t].pc = "done"
        /\ call[t].trace = WaitingCallSteps
        /\ call[t].fetched # NoExchange
        /\ ChannelBit(channels, call[t].channel)

\* C23: under fair scheduling, with every accepted request completed and the
\* EGU interrupt taken, every call of CallSecureService made by a thread
\* returns, and whenever no call is in progress no channel is reserved.
C23_EveryCallReturns ==
    /\ [](( \A t \in Callers : call[t].pc = "idle") => channels = 0)
    /\ \A t \in 1 .. NumThreads : (call[t].pc # "idle") ~> (call[t].pc = "idle")

\* C23 witness: a thread is blocked in its wait while its request is still
\* with Secure firmware, and the other thread is inside a call as well.
C23_Witness ==
    \E t \in 1 .. NumThreads :
        /\ call[t].pc = "wait"
        /\ slot[call[t].channel].st = "inflight"
        /\ semaphores[call[t].channel] = 0
        /\ \E u \in (1 .. NumThreads) \ {t} : Holds(u)

\* C24: under fair scheduling every asynchronous message that Secure firmware
\* has queued, with the event of the asynchronous channel triggered, is
\* fetched by the pump in the end.
C24_EveryMessageFetched ==
    \A n \in 1 .. MaxAsync : (asyncSent >= n) ~> Contains(pump.fetched, n)

\* C24 witness: the pump's last fetch found no message and the pump has not
\* yet taken the semaphore; since then two messages have been queued, and one
\* pending event stands for both.
C24_Witness ==
    /\ pump.pc = "wait"
    /\ pump.result # 0
    /\ Len(asyncQueue) = 2
    /\ events[SECURE_SERVICE_ASYNC_CHANNEL]
    /\ semaphores[SECURE_SERVICE_ASYNC_CHANNEL] = 0

\* C25: one run of the EGU interrupt handler goes through the bidirectional
\* channels and the asynchronous channel; for every channel whose event was
\* pending the event is cleared and the semaphore given (up to its limit),
\* however many were pending, and the semaphore of every other channel is as
\* it was.
C25_FullSweep ==
    egu.ran =>
        \A c \in AllChannels :
            /\ ~events[c]
            /\ semaphores[c] =
                   IF egu.events[c]
                   THEN (IF egu.semaphores[c] < SemLimit
                         THEN egu.semaphores[c] + 1 ELSE egu.semaphores[c])
                   ELSE egu.semaphores[c]

\* C25 witness: the handler has run with the events of channels 0, 2 and of
\* the asynchronous channel pending at once; channel 1 had no event and a
\* signal, channel 3 neither.
C25_Witness ==
    /\ egu.ran
    /\ egu.events = [c \in AllChannels |->
                        c \in {0, 2, SECURE_SERVICE_ASYNC_CHANNEL}]
    /\ egu.semaphores = [c \in AllChannels |-> IF c = 1 THEN 1 ELSE 0]
    /\ semaphores = [c \in AllChannels |-> IF c = 3 THEN 0 ELSE 1]

\* C26: each of the N + 1 semaphores counts 0 or 1 in every reachable state:
\* an event that the handler finds while the semaphore still holds a signal
\* leaves one signal.
C26_AtMostOneSignal ==
    \A c \in AllChannels : semaphores[c] \in {0, 1}

\* C26 witness: the handler has found the event of the asynchronous channel
\* pending while the semaphore held the signal of an earlier event that the
\* pump had not taken, and the count is 1.
C26_Witness ==
    /\ egu.ran
    /\ egu.events[SECURE_SERVICE_ASYNC_CHANNEL]
    /\ egu.semaphores[SECURE_SERVICE_ASYNC_CHANNEL] = 1
    /\ ~events[SECURE_SERVICE_ASYNC_CHANNEL]
    /\ semaphores[SECURE_SERVICE_ASYNC_CHANNEL] = 1

\* C27: ReserveChannel returns only indices below N, for every bitmap, the
\* full one included, and sets no bit at or above position N; every caller
\* of CallSecureService holds, waits on and fetches with a bidirectional
\* channel, arch_set_pendsv submits on one, and the fetch with the request
\* word of the asynchronous channel is the pump's.
C27_AsyncChannelIsThePumps ==
    /\ channels \in Bitmaps
    /\ \A chs \in Bitmaps :
           LET r == ReserveChannel(chs, NoChannel) IN
           /\ r.reserved => r.channel \in Channels
           /\ r.channels \in Bitmaps
    /\ \A t \in Callers :
           /\ Holds(t) => call[t].channel \in Channels
           /\ call[t].pc = "inPut" => GET_CHANNEL(call[t].putRequest) \in Channels
           /\ call[t].pc = "inGet" => GET_CHANNEL(call[t].getRequest) \in Channels
    /\ pendsv.by # {} => GET_CHANNEL(pendsv.request) \in Channels
    /\ pump.pc = "inGet" =>
           GET_CHANNEL(pump.request) = SECURE_SERVICE_ASYNC_CHANNEL

\* C27 witness: the pump is inside the fetch with the request word of the
\* asynchronous channel while a thread waits on channel 0 and an interrupt
\* handler holds channel 1.
C27_Witness ==
    /\ pump.pc = "inGet"
    /\ GET_CHANNEL(pump.request) = SECURE_SERVICE_ASYNC_CHANNEL
    /\ call[1].pc = "wait"
    /\ call[1].channel = 0
    /\ \E i \in Isrs : Holds(i) /\ call[i].channel = 1
    /\ channels = 3

\* The bits of the uint16_t bitmap.
BitPositions == 0 .. 15

\* The channels that are free in a bitmap.
FreeIn(chs) == {c \in Channels : ~ChannelBit(chs, c)}

\* C28: ReserveChannel returns the lowest channel that is free in the bitmap
\* it finds and sets the bit of this channel and no other; when no channel is
\* free it returns false and changes neither the bitmap nor the caller's
\* channel variable.
C28_LowestFree ==
    alloc.pc = "reserved" =>
        IF FreeIn(alloc.before) # {}
        THEN /\ alloc.reserved
             /\ alloc.channel \in FreeIn(alloc.before)
             /\ \A c \in FreeIn(alloc.before) : alloc.channel <= c
             /\ \A b \in BitPositions :
                    ChannelBit(channels, b) <=>
                        (ChannelBit(alloc.before, b) \/ b = alloc.channel)
        ELSE /\ ~alloc.reserved
             /\ channels = alloc.before
             /\ alloc.channel = alloc.arg

\* C28 witness: with channels 0 and 2 reserved, ReserveChannel has returned
\* channel 1 and the bitmap holds the bits 0, 1 and 2.
C28_Witness ==
    /\ alloc.pc = "reserved"
    /\ alloc.before = 5
    /\ alloc.reserved
    /\ alloc.channel = 1
    /\ channels = 7

\* C29: FreeChannel of an index at or above N, or of a channel that is free,
\* leaves the bitmap as it is; FreeChannel of a reserved channel clears the
\* bit of this channel and no other.
C29_FreeChannelFrame ==
    alloc.pc = "freed" =>
        IF alloc.channel \in Channels /\ ChannelBit(alloc.before, alloc.channel)
        THEN \A b \in BitPositions :
                 ChannelBit(channels, b) <=>
                     (ChannelBit(alloc.before, b) /\ b # alloc.channel)
        ELSE channels = alloc.before

\* C29 witness: FreeChannel has been called with the index of the
\* asynchronous channel while every bidirectional channel was reserved.
C29_Witness ==
    /\ alloc.pc = "freed"
    /\ alloc.channel = SECURE_SERVICE_ASYNC_CHANNEL
    /\ alloc.before = 15
    /\ channels = 15

\* C30: a SubscribeUrcs call with a null parameter pointer, or with a size
\* other than sizeof(struct At_SubscribeUrcsParameters), gets -ENOMEM in its
\* first step and leaves the registered callback as it is, whether a callback
\* is registered or not; it reserves no channel.
C30_MalformedSubscription ==
    [][\A t \in Callers :
          (/\ call[t].pc = "idle"
           /\ call'[t].pc # "idle"
           /\ IsSubscribe(call'[t].arg)
           /\ ~WellFormed(call'[t].arg))
          => /\ SubscribeDone(t)'
             /\ call'[t].result = -ENOMEM
             /\ urcCallback' = urcCallback
             /\ channels' = channels]_vars

\* C30 witness: with no callback registered, a subscription whose size is
\* twice that of the structure has its result, -ENOMEM, and no callback is
\* registered.
C30_Witness ==
    \E t \in Callers :
        /\ SubscribeDone(t)
        /\ ~call[t].arg.parameters.null
        /\ call[t].arg.size = 2 * SizeofSubscribeUrcsParameters
        /\ call[t].result = -ENOMEM
        /\ urcCallback = 0
        /\ subscribed = 0

\* C31: the pump handles a message it fetched while no URC callback is
\* registered by invoking nothing and going on to the next fetch, and a
\* message that was handled without a callback invocation is not handed to a
\* callback by any later step, whatever is registered afterwards.
C31_NullCallbackDrops ==
    [][/\ (pump.pc = "dispatch" /\ pump'.pc # "dispatch" /\ urcCallback = 0)
          => /\ Contains(pump.fetched, pump.parameters.buffer)
             /\ pump'.delivered = pump.delivered
             /\ pump'.dispatched = Append(pump.dispatched, pump.parameters.buffer)
             /\ pump'.pc = "get"
       /\ \A i \in 1 .. Len(pump.dispatched) :
             (\A j \in 1 .. Len(pump.delivered) :
                  pump.delivered[j].buffer # pump.dispatched[i])
             => \A j \in 1 .. Len(pump'.delivered) :
                    pump'.delivered[j].buffer # pump.dispatched[i]]_vars

\* C31 witness: the first message was dropped while no callback was
\* registered, a callback was registered afterwards, and the second message
\* was delivered to it.
C31_Witness ==
    /\ urcCallback # 0
    /\ Len(pump.dispatched) = 2
    /\ Len(pump.delivered) = 1
    /\ pump.delivered[1].buffer = pump.dispatched[2]
    /\ pump.delivered[1].buffer # pump.dispatched[1]

\* C32: a run of the EGU interrupt handler (the only step that clears an
\* event flag) clears flags that were set and gives the semaphores of those
\* channels, and nothing else: it leaves the channel bitmap, the callback
\* registration, the exchanges and the message queue of Secure firmware, the
\* callers and the pump as they were.  The URC callback is invoked only by a
\* step of the pump at its dispatch, with no interrupt handler running.
C32_EguHandlerFrame ==
    [][/\ (\E c \in AllChannels : events[c] /\ ~events'[c])
          => /\ channels' = channels
             /\ urcCallback' = urcCallback
             /\ slot' = slot
             /\ asyncQueue' = asyncQueue
             /\ asyncSent' = asyncSent
             /\ pump' = pump
             /\ call' = call
             /\ subscribed' = subscribed
             /\ \A c \in AllChannels :
                   /\ events'[c] => events[c]
                   /\ semaphores'[c] =
                         (IF events[c] /\ semaphores[c] < SemLimit
                          THEN semaphores[c] + 1 ELSE semaphores[c])
       /\ (pump'.delivered # pump.delivered)
          => /\ pump.pc = "dispatch"
             /\ isrStack = <<>>
             /\ ThreadMayRun(Pump)
             /\ events' = events]_vars

\* C32 witness: the handler has run for the asynchronous channel while a
\* callback is registered and a message is queued, and the pump, woken by the
\* signal, has invoked the callback.
C32_Witness ==
    /\ urcCallback # 0
    /\ pump.delivered # <<>>
    /\ pump.queuedAtWake > 0
    /\ ~events[SECURE_SERVICE_ASYNC_CHANNEL]

\* C33: the scheduler-lock nesting of a context is 1 exactly while it is a
\* thread between the k_sched_lock and the k_sched_unlock of a wrapper (or of
\* the older helper), with the wrapper's flag set, and 0 otherwise, so a
\* wrapper returns with the nesting it was entered with whatever the entry
\* point answered; the nesting of an interrupt-context caller stays 0 and
\* its flag stays clear: it neither locks nor unlocks.
C33_LockBalanced ==
    /\ \A t \in Callers :
          /\ schedLock[t] =
                (IF ~k_is_in_isr(t) /\ call[t].pc \in {"inPut", "inGet", "inCall"}
                 THEN 1 ELSE 0)
          /\ call[t].pc \in {"inPut", "inGet"} => (call[t].locked <=> ~k_is_in_isr(t))
          /\ k_is_in_isr(t) => ~call[t].locked
    /\ schedLock[Pump] = (IF pump.pc = "inGet" THEN 1 ELSE 0)
    /\ pump.pc = "inGet" => pump.locked

\* C33 witness: a thread is back from PutSecureServiceRequest with a failure
\* of the transport and holds no scheduler lock, while an interrupt handler
\* that interrupted it is inside the enqueue entry point without a lock.
C33_Witness ==
    \E t \in Threads, i \in Isrs :
        /\ call[t].pc = "done"
        /\ call[t].putResult = -EAGAIN
        /\ schedLock[t] = 0
        /\ call[i].pc = "inPut"
        /\ ~call[i].locked
        /\ schedLock[i] = 0

\* C34: while a download that fota_download_start started with 0 is pending
\* (no terminal DFU URC and no fota_download_init since), the started flag is
\* set, and the URC that ends the download ('DFU: 3', 'DFU: 0' or a DFU URC
\* with an unknown event id) hands exactly one event, FINISHED or ERROR, to
\* the client callback and clears the flag.
C34_DfuUrcsProcessed ==
    [][/\ fota.pending => fota.fotaStarted
       /\ (fota.pending /\ fota'.urcs = fota.urcs + 1 /\ ~fota'.pending)
          => /\ ~fota'.fotaStarted
             /\ Len(fota'.events) = Len(fota.events) + 1
             /\ fota'.events[Len(fota'.events)].id \in
                    {"FOTA_DOWNLOAD_EVT_FINISHED", "FOTA_DOWNLOAD_EVT_ERROR"}]_vars

\* C35: a message that is queued when the pump stands at its start is
\* dispatched in the end, also when no event of the asynchronous channel is
\* ever triggered and no semaphore holds a signal: the pump starts with a
\* fetch, and reaches its wait only when a fetch found nothing.
C35_DrainsAtStart ==
    /\ \A n \in 1 .. MaxAsync :
          (pump = PumpStart /\ Len(asyncQueue) >= n)
              ~> Contains(pump.dispatched, n)
    /\ [](pump.pc = "wait" => pump.result # 0)

\* C35 witness: two messages were queued before the pump started; the pump
\* has dispatched both and stands at its first wait, and no event was ever
\* triggered and no signal given or taken.
C35_Witness ==
    /\ pump.pc = "wait"
    /\ pump.dispatched = <<1, 2>>
    /\ pump.sinceWake = 2
    /\ pump.queuedAtWake = 0
    /\ asyncSent = 2
    /\ semaphores[SECURE_SERVICE_ASYNC_CHANNEL] = 0
    /\ ~events[SECURE_SERVICE_ASYNC_CHANNEL]

\* Context x holds channel c reserved: x is a caller between its reservation
\* and its free, with c as its channel and the bit of c set.
HoldsChannel(x, c) ==
    /\ x \in Callers
    /\ Holds(x)
    /\ call[x].channel = c
    /\ c \in Channels
    /\ ChannelBit(channels, c)

\* C36: whenever a context is inside the enqueue entry point, from
\* PutSecureServiceRequest or from arch_set_pendsv, the channel field of the
\* request word it passed names a bidirectional channel which that context
\* holds reserved, and which no other caller holds.
C36_PutOnReservedChannel ==
    /\ \A t \in Callers :
          call[t].pc = "inPut"
          => /\ HoldsChannel(t, GET_CHANNEL(call[t].putRequest))
             /\ \A u \in Callers \ {t} :
                   ~HoldsChannel(u, GET_CHANNEL(call[t].putRequest))
    /\ \A x \in pendsv.by :
          /\ HoldsChannel(x, GET_CHANNEL(pendsv.request))
          /\ \A u \in Callers \ {x} :
                ~HoldsChannel(u, GET_CHANNEL(pendsv.request))

\* C37: when the request a thread submitted has been completed and the EGU
\* interrupt has run for its channel while the thread has not yet taken the
\* semaphore, the semaphore holds the signal; and under fair scheduling a
\* thread at its wait whose semaphore holds a signal goes on to the fetch.
C37_SignalRetained ==
    /\ [](\A t \in 1 .. NumThreads :
             (/\ call[t].pc = "wait"
              /\ slot[call[t].channel].st = "ready"
              /\ ~events[call[t].channel])
             => semaphores[call[t].channel] > 0)
    /\ \A t \in 1 .. NumThreads :
          (call[t].pc = "wait" /\ semaphores[call[t].channel] > 0)
              ~> (call[t].pc = "inGet")

\* C37 witness: the enqueue returned 0 and the thread has not yet taken a step
\* of its wait; the request is complete, the interrupt has run and the
\* semaphore of the thread's channel holds the signal raised for its request.
C37_Witness ==
    \E t \in 1 .. NumThreads :
        /\ call[t].pc = "wait"
        /\ call[t].putResult = 0
        /\ slot[call[t].channel].st = "ready"
        /\ ~events[call[t].channel]
        /\ semaphores[call[t].channel] = 1
        /\ t \in semFor[call[t].channel]

\* C38: when every SubscribeUrcs call has well-formed parameters and a
\* callback that is not NULL, at most one call ever returns 0, the first one
\* handled does, a call that has 0 as its result is the one whose callback is
\* registered, and every other call has -ENOMEM.
C38_OneSubscriberWins ==
    /\ subscribed <= 1
    /\ (subscribed = 1) <=> (urcCallback # 0)
    /\ \A t \in Callers :
          SubscribeDone(t)
          => /\ subscribed = 1
             /\ \/ call[t].result = -ENOMEM
                \/ /\ call[t].result = 0
                   /\ urcCallback = call[t].arg.parameters.callback
    /\ \A t, u \in Callers :
          (t # u /\ SubscribeDone(t) /\ SubscribeDone(u))
          => ~(call[t].result = 0 /\ call[u].result = 0)

\* C38 witness: a thread's subscription has registered its callback and has
\* not yet returned; an interrupt handler that interrupted the thread has
\* subscribed with another callback and has -ENOMEM.
C38_Witness ==
    \E t \in 1 .. NumThreads, i \in Isrs :
        /\ SubscribeDone(t)
        /\ call[t].result = 0
        /\ urcCallback = call[t].arg.parameters.callback
        /\ SubscribeDone(i)
        /\ call[i].arg.parameters.callback # urcCallback
        /\ call[i].result = -ENOMEM
        /\ isrStack = <<i>>

\* C39: a bidirectional channel on which Secure firmware holds a request it
\* accepted with 0, in flight or complete and not yet fetched, is marked
\* reserved in the bitmap.
C39_FreedOnlyWhenFetched ==
    \A c \in Channels :
        slot[c].st \in {"inflight", "ready"} => ChannelBit(channels, c)

====
